---- MODULE Spec2Model ----
(***************************************************************************)
(* Verification model of rmapi-hwr: the version-6 resynchronizing decoder  *)
(* (parseRmVersion6), page selection and the worker pool of Hwr,          *)
(* Server.processHWR, Server.handleConvert, the batches of getJson and     *)
(* tojson, the pens, the raster renderer, the rmhwr command with the       *)
(* archive loader, and the copy of the decoder in rmhwr.                   *)
(*                                                                         *)
(* Bytes are integers 0..255.  A 32-bit word is the tuple of its four      *)
(* bytes in buffer (little-endian) order, so that no value above 2^31      *)
(* is ever computed.  A float32 is kept as its bit pattern (a word) and    *)
(* compared the way IEEE-754 compares it.  Go offsets are 0-based: the Go  *)
(* byte data[i] is data[i+1] here.                                         *)
(***************************************************************************)
EXTENDS Integers, Sequences, FiniteSets, TLC

VARIABLES
    data,          \* parseRmVersion6: the input buffer
    shape,         \* how the input buffer was assembled (history only)
    pc,            \* parseRmVersion6: position in the function
    err,           \* parseRmVersion6: returned error ("" = nil)
    pos,           \* parseRmVersion6: outer cursor
    numLayers,     \* parseRmVersion6: layer count read from the header
    layerIdx,      \* parseRmVersion6: index of the per-layer loop
    layers,        \* rmData.Layers: per layer the emitted lines
    lines,         \* lines of the layer being parsed
    layerNamePos,  \* offset of the layer-name marker, -1 if none
    parseEnd,      \* end of the current layer window
    linePos,       \* inner scan cursor
    savedPos,      \* start of the last stroke-header candidate
    outcome,       \* what happened to the last candidate (history only)
    prevSaved,     \* start of the candidate before that one (history only)
    zip,           \* the archive: its pages and Content.LastOpenedPage
    req,           \* the operation under way and its arguments
    hpc,           \* position in the operation under way
    loopP,         \* Hwr, processHWR: the loop variable `p`
    pend,          \* Hwr, processHWR: the local `end`
    result,        \* Hwr: the result slice; processHWR: the result map
    sem,           \* Hwr: permits of the semaphore that are held
    workers,       \* Hwr: position of every started page goroutine
    launched,      \* page indexes the loop body ran for, in order
    opErr,         \* error returned by the operation
    opOut,         \* value produced: batch, printed texts or canvas
    bbox,          \* VisualizePageWithConfig: the bounding box
    dims,          \* VisualizePageWithConfig: scale and image dimensions
    canvas,        \* VisualizePageWithConfig: the image `img`
    drawn,         \* the strokes drawn so far, in order (history only)
    run,           \* which render of the page this is (history only)
    firstOut,      \* canvas of the first render (history only)
    argv,          \* rmhwr main: the command line, a string per flag
    rmdoc,         \* rmhwr main: the document file named on the command line
    mpc,           \* rmhwr main: position in main
    flagCells,     \* rmhwr main: the values the flag pointers point to
    cfg,           \* rmhwr main: the local `cfg`
    handed         \* rmhwr main: the call main ends with (history only)

parseVars == <<data, shape, pc, err, pos, numLayers, layerIdx, layers, lines,
               layerNamePos, parseEnd, linePos, savedPos, outcome, prevSaved>>

renderVars == <<dims, canvas, drawn, run, firstOut>>

pageVars == <<zip, req, hpc, loopP, pend, result, sem, workers, launched, opErr,
              opOut, bbox, renderVars>>

\* no render has started
RenderIdle ==
    /\ dims = [num |-> 1, den |-> 1, width |-> 0, height |-> 0]
    /\ canvas = [w |-> 0, h |-> 0, pix |-> <<>>]
    /\ drawn = <<>>
    /\ run = 1
    /\ firstOut = [w |-> 0, h |-> 0, pix |-> <<>>]

mainVars == <<argv, rmdoc, mpc, flagCells, cfg, handed>>

vars == <<parseVars, pageVars, mainVars>>

\* the zero value of hwr.Config
ZeroConfig ==
    [Page |-> 0, Lang |-> "", InputType |-> "", AddPages |-> FALSE,
     BatchSize |-> 0, OutputFile |-> ""]

\* the flags before they are defined
NoFlags ==
    [type |-> "", lang |-> "", page |-> 0, a |-> FALSE, visualize |-> FALSE,
     b |-> 0]

\* rmhwr main is not running
MainIdle ==
    /\ argv = [file |-> ""]
    /\ rmdoc = [pages |-> <<>>, lastOpened |-> <<"p", 0>>]
    /\ mpc = "idle"
    /\ flagCells = NoFlags
    /\ cfg = ZeroConfig
    /\ handed = [call |-> "none"]

\* no archive operation is under way
PageIdle ==
    /\ zip = [pages |-> <<>>, lastOpened |-> 0]
    /\ req = [op |-> "none"]
    /\ hpc = "idle"
    /\ loopP = 0
    /\ pend = 0
    /\ result = <<>>
    /\ sem = 0
    /\ workers = <<>>
    /\ launched = <<>>
    /\ opErr = "none"
    /\ opOut = "none"
    /\ bbox = "none"
    /\ RenderIdle

\* no decode is under way
ParseIdle ==
    /\ data = <<>>
    /\ shape = [kind |-> "none"]
    /\ pc = "idle"
    /\ err = ""
    /\ pos = 0
    /\ numLayers = 0
    /\ layerIdx = 0
    /\ layers = <<>>
    /\ lines = <<>>
    /\ layerNamePos = -1
    /\ parseEnd = 0
    /\ linePos = 0
    /\ savedPos = -1
    /\ outcome = "none"
    /\ prevSaved = -1

-----------------------------------------------------------------------------
(* Bounds of the explored inputs.                                          *)

\* layer counts 0..MaxLayers are written into the header
MaxLayers == 2
\* 0..MaxJunk bytes 0xFF are spliced between the two records
MaxJunk == 3
\* archives hold 0..MaxPages pages
MaxPages == 3
\* OutputWidth ranges over 1..MaxWidth for the archive operations and over
\* RenderWidths for the render runs
MaxWidth == 2

\* Hwr and processHWR run on archives of at most MaxHwrPages pages, one more
\* than the default batch size
MaxHwrPages == 4

-----------------------------------------------------------------------------
(* Words and float32 bit patterns.                                         *)

RECURSIVE Rep(_, _)
Rep(b, n) == IF n <= 0 THEN <<>> ELSE <<b>> \o Rep(b, n - 1)

\* binary.LittleEndian.Uint32(d[p : p+4])
Word(d, p) == <<d[p + 1], d[p + 2], d[p + 3], d[p + 4]>>

\* value of a word below 2^31
U32Val(w) == w[1] + 256 * w[2] + 65536 * w[3] + 16777216 * w[4]

\* uint32 comparison w > c for a constant 0 <= c < 2^31
U32Gt(w, c) == IF w[4] >= 128 THEN TRUE ELSE U32Val(w) > c

\* math.Float32frombits: sign, exponent, mantissa, magnitude
F32Sign(w) == w[4] >= 128
F32Exp(w)  == (w[4] % 128) * 2 + (w[3] \div 128)
F32Mant(w) == (w[3] % 128) * 65536 + w[2] * 256 + w[1]
F32Mag(w)  == (w[4] % 128) * 16777216 + w[3] * 65536 + w[2] * 256 + w[1]

\* math.IsNaN(float64(f)), math.IsInf(float64(f), 0)
IsNaN(w) == F32Exp(w) = 255 /\ F32Mant(w) # 0
IsInf(w) == F32Exp(w) = 255 /\ F32Mant(w) = 0

\* bit patterns of the float32 constants of the plausibility checks
Bits100   == 1120403456
Bits20000 == 1184645120
Bits1000  == 1148846080

\* f < 0 : false for NaN and for -0
F32LtZero(w) == ~IsNaN(w) /\ F32Sign(w) /\ F32Mag(w) # 0
\* f > c for a positive constant c given by its bits
F32GtPos(w, cbits) == ~IsNaN(w) /\ ~F32Sign(w) /\ F32Mag(w) > cbits
\* f < -c for a positive constant c given by its bits
F32LtNeg(w, cbits) == ~IsNaN(w) /\ F32Sign(w) /\ F32Mag(w) > cbits

-----------------------------------------------------------------------------
(* parseRmVersion6: fixed header.                                          *)

\* "version=6"
VersionMarker == <<118, 101, 114, 115, 105, 111, 110, 61, 54>>
\* "Layer " : the six-character literal the layer scan compares against
LayerMarker == <<76, 97, 121, 101, 114, 32>>

\* strings.Contains(s, pat)
Contains(s, pat) ==
    \E i \in 0..(Len(s) - Len(pat)) : SubSeq(s, i + 1, i + Len(pat)) = pat

PreambleLen == 43

\* header checks that forget the final 7-byte metadata block
HeaderErrNoTail(d) ==
    IF Len(d) < PreambleLen THEN "file too short"
    ELSE IF ~Contains(SubSeq(d, 1, PreambleLen), VersionMarker)
         THEN "not a version 6 file"
    ELSE IF PreambleLen + 5 + 5 + 4 + 16 > Len(d) THEN "unexpected end of file"
    ELSE ""

\* the bounds checks of the fixed header, in source order; "" when all pass
HeaderErr(d) ==
    IF Len(d) < PreambleLen THEN "file too short"
    ELSE IF ~Contains(SubSeq(d, 1, PreambleLen), VersionMarker)
         THEN "not a version 6 file"
    ELSE LET p0 == PreambleLen
             p1 == p0 + 5
             p2 == p1 + 5
             p3 == p2 + 4
             p4 == p3 + 16
         IN  IF p0 + 5 > Len(d) THEN "unexpected end of file"
             ELSE IF p1 + 5 > Len(d) THEN "unexpected end of file"
             ELSE IF p2 + 4 > Len(d) THEN "unexpected end of file"
             ELSE IF p3 + 16 > Len(d) THEN "unexpected end of file"
             ELSE IF p4 + 7 > Len(d) THEN "unexpected end of file"
             ELSE ""

\* offset of the layer count, and of the first byte after the fixed header
LayerCountPos == PreambleLen + 5 + 5
HeaderEnd == PreambleLen + 5 + 5 + 4 + 16 + 7

-----------------------------------------------------------------------------
(* parseRmVersion6: layer window.                                          *)

\* the scan for the layer name: first i in [p, len-10) with i+7 < len and
\* string(data[i:i+7]) == "Layer "; -1 when there is none
FindLayerName(d, p) ==
    LET hits == {i \in p..(Len(d) - 11) :
                    i + 7 < Len(d) /\ SubSeq(d, i + 1, i + 7) = LayerMarker}
    IN  IF hits = {} THEN -1
        ELSE CHOOSE i \in hits : \A j \in hits : i <= j

WindowEnd(d, namePos, idx, n) ==
    IF namePos > 0 /\ idx < n - 1 THEN namePos ELSE Len(d)

\* skip the marker and the name: up to 20 bytes, stopping at 0 or '<'
RECURSIVE NameEnd(_, _, _)
NameEnd(d, e, namePos) ==
    IF e < Len(d) /\ d[e + 1] # 0 /\ d[e + 1] # 60 /\ e < namePos + 20
    THEN NameEnd(d, e + 1, namePos)
    ELSE e

\* the inner loop runs while linePos < parseEnd-50
MinLineBytes == 50
ScanGuard(lp, pe) == lp < pe - MinLineBytes

-----------------------------------------------------------------------------
(* parseRmVersion6: one stroke-header candidate.                           *)

MaxBrushType == 50
MaxNumPoints == 50000
PointBytes == 24

\* a resynchronization that makes no progress
ResyncPosStuck(saved) == saved

\* the resynchronization step: linePos = savedPos + 1
ResyncPos(saved) == saved + 1

BrushTypeOK(w) == ~U32Gt(w, MaxBrushType)

BrushSizeOK(w) == ~(F32LtZero(w) \/ F32GtPos(w, Bits100))

NumPointsOK(w) == ~(w = <<0, 0, 0, 0>> \/ U32Gt(w, MaxNumPoints))

\* the six fields of the point record at offset p
PointAt(d, p) ==
    [x |-> Word(d, p), y |-> Word(d, p + 4), speed |-> Word(d, p + 8),
     direction |-> Word(d, p + 12), width |-> Word(d, p + 16),
     pressure |-> Word(d, p + 20)]

Finite(w) == ~IsNaN(w) /\ ~IsInf(w)

CoordOK(w) == ~(F32LtNeg(w, Bits1000) \/ F32GtPos(w, Bits20000))

\* a per-point check that forgets the pressure field
PointValidNoPressure(pt) ==
    /\ Finite(pt.x) /\ Finite(pt.y) /\ Finite(pt.speed)
    /\ Finite(pt.direction) /\ Finite(pt.width)
    /\ CoordOK(pt.x) /\ CoordOK(pt.y)

\* the per-point check: a point failing it is skipped with `continue`
PointValid(pt) ==
    /\ Finite(pt.x) /\ Finite(pt.y) /\ Finite(pt.speed)
    /\ Finite(pt.direction) /\ Finite(pt.width) /\ Finite(pt.pressure)
    /\ CoordOK(pt.x) /\ CoordOK(pt.y)

\* the point loop: i counts the records, lp is linePos, acc the points
\* stored so far (line.Points[:pointsRead])
RECURSIVE ReadPoints(_, _, _, _, _, _)
ReadPoints(d, lp, i, n, pe, acc) ==
    IF i >= n \/ lp + PointBytes > pe THEN [points |-> acc, lp |-> lp]
    ELSE LET pt == PointAt(d, lp)
         IN  ReadPoints(d, lp + PointBytes, i + 1, n, pe,
                        IF PointValid(pt) THEN Append(acc, pt) ELSE acc)

\* keeping a stroke whatever the number of points read
KeepLineAlways(pointsRead) == pointsRead >= 0

\* a stroke is kept when pointsRead > 0
KeepLine(pointsRead) == pointsRead > 0

\* one iteration of the inner loop at candidate start p in a window ending
\* at pe: the kind of exit, the new linePos and the emitted line (if any)
Candidate(d, p, pe) ==
    IF p + 4 > pe THEN [kind |-> "break", lp |-> p]
    ELSE IF ~BrushTypeOK(Word(d, p))
         THEN [kind |-> "reject_brush", lp |-> ResyncPos(p)]
    ELSE IF p + 8 > pe THEN [kind |-> "break", lp |-> p + 4]
    ELSE IF p + 12 > pe THEN [kind |-> "break", lp |-> p + 8]
    ELSE IF p + 16 > pe THEN [kind |-> "break", lp |-> p + 12]
    ELSE IF ~BrushSizeOK(Word(d, p + 12))
         THEN [kind |-> "reject_size", lp |-> ResyncPos(p)]
    ELSE IF p + 20 > pe THEN [kind |-> "break", lp |-> p + 16]
    ELSE IF p + 24 > pe THEN [kind |-> "break", lp |-> p + 20]
    ELSE IF ~NumPointsOK(Word(d, p + 20))
         THEN [kind |-> "reject_count", lp |-> ResyncPos(p)]
    ELSE LET n == U32Val(Word(d, p + 20))
         IN  IF p + 24 + n * PointBytes > pe
             THEN [kind |-> "reject_fit", lp |-> ResyncPos(p)]
             ELSE LET r == ReadPoints(d, p + 24, 0, n, pe, <<>>)
                  IN  IF KeepLine(Len(r.points))
                      THEN [kind |-> "accept", lp |-> r.lp,
                            line |-> [at         |-> p,
                                      brushType  |-> Word(d, p),
                                      brushColor |-> Word(d, p + 4),
                                      padding    |-> Word(d, p + 8),
                                      brushSize  |-> Word(d, p + 12),
                                      unknown    |-> Word(d, p + 16),
                                      points     |-> r.points]]
                      ELSE [kind |-> "reject_empty", lp |-> ResyncPos(p)]

Rejects == {"reject_brush", "reject_size", "reject_count", "reject_fit",
            "reject_empty"}

-----------------------------------------------------------------------------
(* Input buffers.  A buffer is the fixed header followed by a first stroke *)
(* record, spliced bytes, a second stroke record and a tail; or a          *)
(* truncated or foreign header.                                            *)

\* "reMarkable .lines file, version=6" padded with blanks to 43 bytes
Preamble(v) ==
    <<114, 101, 77, 97, 114, 107, 97, 98, 108, 101, 32, 46, 108, 105, 110,
      101, 115, 32, 102, 105, 108, 101, 44, 32, 118, 101, 114, 115, 105,
      111, 110, 61, v>> \o Rep(32, 10)

W32(n) == <<n % 256, (n \div 256) % 256, (n \div 65536) % 256,
            (n \div 16777216) % 256>>

FixedHeader(v, n) ==
    Preamble(v) \o Rep(0, 5) \o Rep(0, 5) \o W32(n) \o Rep(7, 16) \o Rep(0, 7)

\* float32 bit patterns, little-endian
FZero   == <<0, 0, 0, 0>>
FOne    == <<0, 0, 128, 63>>
FHundred == <<0, 0, 200, 66>>
FOver100 == <<1, 0, 200, 66>>
FMinusOne == <<0, 0, 128, 191>>
FNaN    == <<0, 0, 192, 127>>
FInf    == <<0, 0, 128, 127>>
FNegInf == <<0, 0, 128, 255>>
F20000  == <<0, 64, 156, 70>>
FOver20000 == <<1, 64, 156, 70>>
FMinus1000 == <<0, 0, 122, 196>>
FUnderMinus1000 == <<1, 0, 122, 196>>

PointBytesOf(x, y, s, dir, w, p) == x \o y \o s \o dir \o w \o p

PtA    == PointBytesOf(FOne, FOne, FOne, FOne, FOne, FOne)
PtEdge == PointBytesOf(F20000, FMinus1000, FZero, FOne, FOne, FHundred)
PtNaNx == PointBytesOf(FNaN, FOne, FOne, FOne, FOne, FOne)
PtInfP == PointBytesOf(FOne, FOne, FOne, FOne, FOne, FInf)
PtFar  == PointBytesOf(FOver20000, FOne, FOne, FOne, FOne, FOne)
PtLow  == PointBytesOf(FOne, FUnderMinus1000, FOne, FOne, FOne, FOne)
PtNegInfW == PointBytesOf(FOne, FOne, FOne, FOne, FNegInf, FOne)

RecordBytes(bt, size, np, pts) ==
    W32(bt) \o W32(0) \o W32(0) \o size \o FZero \o W32(np) \o pts

\* well-formed records: plausible header, every point valid
ValidRecords ==
    [ok2 |-> RecordBytes(2, FOne, 2, PtA \o PtEdge),
     ok1 |-> RecordBytes(4, FHundred, 1, PtA)]

\* records with a plausible header and some or all points invalid
DirtyRecords ==
    [mixed |-> RecordBytes(15, FOne, 3, PtNaNx \o PtA \o PtFar),
     drop  |-> RecordBytes(2, FOne, 2, PtInfP \o PtLow),
     winf  |-> RecordBytes(2, FOne, 2, PtNegInfW \o PtEdge)]

\* records whose header fails, or should fail, one plausibility check
BadRecords ==
    [bt51   |-> RecordBytes(51, FOne, 2, PtA \o PtA),
     sznan  |-> RecordBytes(2, FNaN, 2, PtA \o PtA),
     szbig  |-> RecordBytes(2, FOver100, 2, PtA \o PtA),
     szneg  |-> RecordBytes(2, FMinusOne, 2, PtA \o PtA),
     np0    |-> RecordBytes(2, FOne, 0, PtA),
     nphuge |-> RecordBytes(2, FOne, 50001, PtA \o PtA),
     nofit  |-> RecordBytes(2, FOne, 4, PtA \o PtA)]

NoRecord == [none |-> <<>>]

FirstRecords == NoRecord @@ ValidRecords @@ DirtyRecords @@ BadRecords
SecondRecords == NoRecord @@ ValidRecords @@ [mixed |-> DirtyRecords.mixed]

\* "Layer 1" and a terminating zero byte
LayerName == <<76, 97, 121, 101, 114, 32, 49, 0>>

JunkNames == {<<"ff", k>> : k \in 0..MaxJunk}
SpliceNames == JunkNames \cup {<<"zeros", 20>>, <<"layer", 1>>}
SpliceBytes(s) ==
    IF s[1] = "ff" THEN Rep(255, s[2])
    ELSE IF s[1] = "zeros" THEN Rep(0, s[2])
    ELSE LayerName

Tails == [none |-> <<>>, pad |-> Rep(255, 3)]

BodyShapes ==
    [kind : {"body"}, n : 0..MaxLayers, r1 : DOMAIN FirstRecords,
     sp : SpliceNames, r2 : DOMAIN SecondRecords, tail : DOMAIN Tails]

\* truncated and foreign headers
CutLengths == {0, 9, 42, 43, 47, 48, 52, 53, 56, 57, 72, 73, 79}
HeadShapes ==
    [kind : {"cut"}, n : {1}, len : CutLengths]
    \cup [kind : {"foreign"}, n : {1}, r1 : {"none", "ok2"}]

Shapes == BodyShapes \cup HeadShapes

BufferOf(sh) ==
    IF sh.kind = "body"
    THEN FixedHeader(54, sh.n) \o FirstRecords[sh.r1] \o SpliceBytes(sh.sp)
         \o SecondRecords[sh.r2] \o Tails[sh.tail]
    ELSE IF sh.kind = "cut"
    THEN SubSeq(FixedHeader(54, sh.n) \o ValidRecords.ok2, 1, sh.len)
    ELSE FixedHeader(53, sh.n) \o FirstRecords[sh.r1]

-----------------------------------------------------------------------------
(* parseRmVersion6 as a state machine.                                     *)

ParseInit ==
    /\ shape \in Shapes
    /\ data = BufferOf(shape)
    /\ pc = "start"
    /\ err = ""
    /\ pos = 0
    /\ numLayers = 0
    /\ layerIdx = 0
    /\ layers = <<>>
    /\ lines = <<>>
    /\ layerNamePos = -1
    /\ parseEnd = 0
    /\ linePos = 0
    /\ savedPos = -1
    /\ outcome = "none"
    /\ prevSaved = -1
    /\ PageIdle
    /\ MainIdle

\* lines 37-80: the header checks, then rmData.Layers = make(numLayers)
ParseHeader ==
    /\ pc = "start"
    /\ LET e == HeaderErr(data)
       IN  IF e # ""
           THEN /\ err' = e
                /\ pc' = "fail"
                /\ UNCHANGED <<pos, numLayers, layers>>
           ELSE /\ err' = ""
                /\ numLayers' = U32Val(Word(data, LayerCountPos))
                /\ layers' = [i \in 1..numLayers' |-> <<>>]
                /\ pos' = HeaderEnd
                /\ pc' = "layer"
    /\ UNCHANGED <<data, shape, layerIdx, lines, layerNamePos, parseEnd,
                   linePos, savedPos, outcome, prevSaved>>
    /\ UNCHANGED pageVars
    /\ UNCHANGED mainVars

\* lines 83-101: start of one iteration of the per-layer loop
BeginLayer ==
    /\ pc = "layer"
    /\ layerIdx < numLayers
    /\ layerNamePos' = FindLayerName(data, pos)
    /\ parseEnd' = WindowEnd(data, layerNamePos', layerIdx, numLayers)
    /\ linePos' = pos
    /\ lines' = <<>>
    /\ savedPos' = -1
    /\ prevSaved' = -1
    /\ outcome' = "none"
    /\ pc' = "scan"
    /\ UNCHANGED <<data, shape, err, pos, numLayers, layerIdx, layers>>
    /\ UNCHANGED pageVars
    /\ UNCHANGED mainVars

\* lines 102-162, 218-224: an iteration that rejects its candidate
RejectCandidate ==
    /\ pc = "scan"
    /\ ScanGuard(linePos, parseEnd)
    /\ LET c == Candidate(data, linePos, parseEnd)
       IN  /\ c.kind \in Rejects
           /\ outcome' = c.kind
           /\ linePos' = c.lp
    /\ savedPos' = linePos
    /\ prevSaved' = savedPos
    /\ UNCHANGED <<data, shape, pc, err, pos, numLayers, layerIdx, layers,
                   lines, layerNamePos, parseEnd>>
    /\ UNCHANGED pageVars
    /\ UNCHANGED mainVars

\* lines 102-220: an iteration that emits a stroke
AcceptStroke ==
    /\ pc = "scan"
    /\ ScanGuard(linePos, parseEnd)
    /\ LET c == Candidate(data, linePos, parseEnd)
       IN  /\ c.kind = "accept"
           /\ outcome' = c.kind
           /\ linePos' = c.lp
           /\ lines' = Append(lines, c.line)
    /\ savedPos' = linePos
    /\ prevSaved' = savedPos
    /\ UNCHANGED <<data, shape, pc, err, pos, numLayers, layerIdx, layers,
                   layerNamePos, parseEnd>>
    /\ UNCHANGED pageVars
    /\ UNCHANGED mainVars

\* lines 227-237: the inner loop has ended (its guard is false, or an
\* iteration left it with `break`); store the lines, move the outer cursor
EndLayer ==
    /\ pc = "scan"
    /\ LET brk == ScanGuard(linePos, parseEnd)
                  /\ Candidate(data, linePos, parseEnd).kind = "break"
           lp  == IF brk THEN Candidate(data, linePos, parseEnd).lp
                  ELSE linePos
       IN  /\ ~ScanGuard(linePos, parseEnd) \/ brk
           /\ linePos' = lp
           /\ pos' = IF layerNamePos > 0
                     THEN NameEnd(data, layerNamePos + 7, layerNamePos)
                     ELSE lp
    /\ layers' = [layers EXCEPT ![layerIdx + 1] = lines]
    /\ layerIdx' = layerIdx + 1
    /\ pc' = "layer"
    /\ UNCHANGED <<data, shape, err, numLayers, lines, layerNamePos,
                   parseEnd, savedPos, outcome, prevSaved>>
    /\ UNCHANGED pageVars
    /\ UNCHANGED mainVars

\* line 240: return rmData, nil
ParseReturn ==
    /\ pc = "layer"
    /\ layerIdx >= numLayers
    /\ pc' = "done"
    /\ UNCHANGED <<data, shape, err, pos, numLayers, layerIdx, layers, lines,
                   layerNamePos, parseEnd, linePos, savedPos, outcome,
                   prevSaved>>
    /\ UNCHANGED pageVars
    /\ UNCHANGED mainVars

ParseNext ==
    \/ ParseHeader
    \/ BeginLayer
    \/ RejectCandidate
    \/ AcceptStroke
    \/ EndLayer
    \/ ParseReturn

ParseSpec == ParseInit /\ [][ParseNext]_vars

\* the loop scheduling of a sequential function: an enabled step is taken
ParseFairSpec == ParseSpec /\ WF_vars(ParseNext)

-----------------------------------------------------------------------------
(* Archives.  A page is "nil" (page.Data == nil) or the list of its        *)
(* layers; a layer is the list of its lines.  Brush types are named as in  *)
(* rm.BrushType.  Coordinates are whole numbers; a pressure is given in    *)
(* thousandths (500 stands for 0.5).                                       *)

Pt(x, y, pr) == [x |-> x, y |-> y, pressure |-> pr]
\* a line with its colour id and its brush size in thousandths
LineOf(bt, colorID, size, pts) ==
    [brushType |-> bt, brushColor |-> colorID, brushSize |-> size,
     points |-> pts]
\* a black line of brush size 2.0
Line(bt, pts) == LineOf(bt, 0, 2000, pts)

PageLib ==
    [nil        |-> "nil",
     nolayers   |-> <<>>,
     emptylayer |-> << <<>> >>,
     erase      |-> << <<Line("EraseArea",
                            <<Pt(10, 10, 500), Pt(20, 20, 500),
                              Pt(30, 10, 500)>>)>> >>,
     dot        |-> << <<Line("Fineliner", <<Pt(5, 5, 0)>>)>>,
                       <<Line("EraseArea", <<Pt(1, 1, 500), Pt(2, 2, 500)>>),
                         Line("Highlighter", <<>>)>> >>,
     ink        |-> << <<Line("Fineliner",
                            <<Pt(100, 100, 500), Pt(200, 200, 2000),
                              Pt(300, 100, 30000)>>)>> >>,
     mixed      |-> << <<Line("Eraser", <<Pt(0, 0, -100), Pt(40, 0, 1000)>>),
                         Line("EraseArea", <<Pt(90, 90, 500), Pt(95, 95, 500)>>)>>,
                       <<Line("Highlighter", <<Pt(7, 30, 400), Pt(9, 3, 400)>>),
                         Line("Ballpoint", <<Pt(60, 60, 700)>>)>> >>]

\* pages of the render runs
RenderLib ==
    [r_wide   |-> << <<LineOf("Fineliner", 0, 2000,
                              <<Pt(0, 0, 1000), Pt(1200, 40, 1000)>>)>> >>,
     r_excl   |-> << <<LineOf("EraseArea", 0, 2000,
                              <<Pt(-300, -300, 500), Pt(900, 900, 500)>>),
                       LineOf("Fineliner", 0, 2000, <<Pt(2000, 5, 500)>>),
                       LineOf("Highlighter", 3, 2000, <<>>)>>,
                     <<LineOf("SharpPencil", 6, 2000,
                              <<Pt(100, 100, 200), Pt(200, 200, 900),
                                Pt(300, 100, 500)>>)>> >>,
     r_onehl  |-> << <<LineOf("Highlighter", 3, 2000,
                              <<Pt(0, 0, 500), Pt(1000, 0, 500)>>)>> >>,
     r_twohl  |-> << <<LineOf("Highlighter", 3, 2000,
                              <<Pt(0, 0, 500), Pt(1000, 0, 500)>>),
                       LineOf("Highlighter", 3, 2000,
                              <<Pt(0, 0, 500), Pt(1000, 0, 500)>>)>> >>,
     r_bend   |-> << <<LineOf("HighlighterV5", 5, 2000,
                              <<Pt(0, 0, 500), Pt(400, 0, 500),
                                Pt(400, 300, 500)>>)>> >>,
     r_spot   |-> << <<LineOf("Highlighter", 4, 2000,
                              <<Pt(10, 10, 500), Pt(11, 11, 500)>>)>> >>,
     r_order  |-> << <<LineOf("Fineliner", 0, 2000,
                              <<Pt(0, 50, 1000), Pt(400, 50, 1000)>>),
                       LineOf("Highlighter", 3, 2000,
                              <<Pt(0, 50, 500), Pt(400, 50, 500)>>)>>,
                     <<LineOf("SharpPencil", 7, 2125,
                              <<Pt(200, 0, 500), Pt(200, 100, 500)>>),
                       LineOf("EraseArea", 0, 2000,
                              <<Pt(0, 0, 500), Pt(50, 50, 500)>>),
                       LineOf("HighlighterV5", 4, 2000,
                              <<Pt(200, 0, 500), Pt(200, 100, 500)>>),
                       LineOf("Eraser", 0, 2000,
                              <<Pt(100, 50, 1000), Pt(300, 50, 1000)>>)>> >>,
     r_pens   |-> << <<LineOf("Fineliner", 0, 1875,
                              <<Pt(0, 0, 0), Pt(100, 0, 500),
                                Pt(200, 0, 1000)>>),
                       LineOf("SharpPencil", 1, 1875,
                              <<Pt(0, 100, 0), Pt(100, 100, 500),
                                Pt(200, 100, 1000)>>),
                       LineOf("Eraser", 0, 2125,
                              <<Pt(0, 200, 250), Pt(200, 200, 1000)>>),
                       LineOf("FinelinerV5", 99, 2000,
                              <<Pt(0, 300, 1000), Pt(200, 300, 1000)>>)>> >>,
     r_thick  |-> << <<LineOf("Fineliner", 7, 2000,
                              <<Pt(0, 0, 30000), Pt(0, 300, 30000)>>)>> >>,
     r_tail   |-> << <<LineOf("Highlighter", 3, 2000,
                              <<Pt(0, 0, 500), Pt(0, 0, 500),
                                Pt(400, 0, 500), Pt(400, 0, 500)>>)>> >>]

\* page lists of the recognition runs: only presence of data matters there
HwrPageNames == {"nil", "ink"}

RECURSIVE SeqsUpTo(_, _)
SeqsUpTo(S, n) ==
    IF n = 0 THEN {<<>>}
    ELSE LET shorter == SeqsUpTo(S, n - 1)
         IN  shorter \cup {Append(q, e) : q \in shorter, e \in S}

AllPages == RenderLib @@ PageLib

PageData(z, i) == AllPages[z.pages[i + 1]]

\* all lines of a page, layer by layer
RECURSIVE FlattenLines(_)
FlattenLines(ls) ==
    IF ls = <<>> THEN <<>> ELSE Head(ls) \o FlattenLines(Tail(ls))

-----------------------------------------------------------------------------
(* The recognition payload.                                                *)

\* a normalisation without the cap at 1
NormPressureUncapped(pr) ==
    IF pr <= 0 THEN 500
    ELSE IF pr > 1000 THEN pr \div 10 ELSE pr

\* pressure <= 0 becomes 0.5; pressure > 1 is divided by 10 and capped at 1
NormPressure(pr) ==
    IF pr <= 0 THEN 500
    ELSE IF pr > 1000
         THEN (IF pr \div 10 > 1000 THEN 1000 ELSE pr \div 10)
         ELSE pr

PointerTypeOf(bt) == IF bt = "Eraser" THEN "ERASER" ELSE "PEN"

HwrStroke(ln) ==
    [X |-> [i \in DOMAIN ln.points |-> ln.points[i].x],
     Y |-> [i \in DOMAIN ln.points |-> ln.points[i].y],
     P |-> [i \in DOMAIN ln.points |-> NormPressure(ln.points[i].pressure)],
     T |-> [i \in DOMAIN ln.points |-> 16 * (i - 1)],
     PointerType |-> PointerTypeOf(ln.brushType)]

HwrLineKept(ln) == ln.brushType # "EraseArea" /\ Len(ln.points) # 0

RECURSIVE MapSeq(_, _)
MapSeq(F(_), q) ==
    IF q = <<>> THEN <<>> ELSE <<F(Head(q))>> \o MapSeq(F, Tail(q))

HwrBatch(page) ==
    [Width |-> 1404, Height |-> 1872, XDPI |-> 226, YDPI |-> 226,
     Strokes |-> MapSeq(HwrStroke, SelectSeq(FlattenLines(page), HwrLineKept))]

\* a page index is rejected when outside [0, numPages)
PageInRange(z, pageNumber) ==
    ~(pageNumber >= Len(z.pages) \/ pageNumber < 0)

\* hwr.getJson
getJson(z, pageNumber) ==
    IF ~PageInRange(z, pageNumber) THEN [err |-> "outside range", out |-> "none"]
    ELSE IF PageData(z, pageNumber) = "nil"
         THEN [err |-> "no page content", out |-> "none"]
    ELSE [err |-> "nil", out |-> HwrBatch(PageData(z, pageNumber))]

\* Server.buildBatchInput
buildBatchInput(z, pageNumber) ==
    IF ~PageInRange(z, pageNumber) THEN [err |-> "outside range", out |-> "none"]
    ELSE IF PageData(z, pageNumber) = "nil"
         THEN [err |-> "no data for page", out |-> "none"]
    ELSE [err |-> "nil", out |-> HwrBatch(PageData(z, pageNumber))]

\* tojson: coordinates times 10, no pressure, no timestamps
TojsonStroke(ln) ==
    [X |-> [i \in DOMAIN ln.points |-> ln.points[i].x * 10],
     Y |-> [i \in DOMAIN ln.points |-> ln.points[i].y * 10],
     P |-> <<>>,
     T |-> <<>>,
     PointerType |-> IF ln.brushType = "Eraser" THEN "ERASER" ELSE ""]

TojsonLineKept(ln) == ln.brushType # "EraseArea"

\* tojson generateJSON
generateJSON(z, pageNumber) ==
    IF ~PageInRange(z, pageNumber) THEN [err |-> "outside range", out |-> "none"]
    ELSE IF PageData(z, pageNumber) = "nil"
         THEN [err |-> "no page content", out |-> "none"]
    ELSE [err |-> "nil",
          out |-> [Width |-> 14040, Height |-> 18720, XDPI |-> 2280,
                   YDPI |-> 2280,
                   Strokes |-> MapSeq(TojsonStroke,
                                      SelectSeq(FlattenLines(
                                                  PageData(z, pageNumber)),
                                                TojsonLineKept))]]

-----------------------------------------------------------------------------
(* Page selection of Hwr and Server.processHWR.                            *)

BatchSize == 3

\* an explicit page taken as an index
ExplicitStartUnshifted(k) == k

\* explicit page k: start = cfg.Page - 1
ExplicitStart(k) == k - 1

\* Hwr lines 181-194: capacity, start, end
HwrRange(z, cfgPage) ==
    IF cfgPage = 0
    THEN [capacity |-> 1, start |-> z.lastOpened, end |-> z.lastOpened]
    ELSE IF cfgPage < 0
    THEN [capacity |-> Len(z.pages), start |-> 0, end |-> Len(z.pages) - 1]
    ELSE [capacity |-> 1, start |-> ExplicitStart(cfgPage),
          end |-> ExplicitStart(cfgPage)]

\* processHWR lines 302-313: start, end
SrvRange(z, cfgPage) ==
    IF cfgPage = 0
    THEN [start |-> z.lastOpened, end |-> z.lastOpened]
    ELSE IF cfgPage < 0
    THEN [start |-> 0, end |-> Len(z.pages) - 1]
    ELSE [start |-> ExplicitStart(cfgPage), end |-> ExplicitStart(cfgPage)]

-----------------------------------------------------------------------------
(* The renderer, up to the bounding box and the blank canvas.              *)

minImageHeight == 100

\* the configuration: DefaultVisualizationConfig with a small OutputWidth;
\* PaddingPercent is the fraction PaddingNum / PaddingDen
PaddingNum == 5
PaddingDen == 100
MinPadding == 50

White == <<255, 255, 255, 255>>

\* image.NewRGBA(image.Rect(0, 0, width, height)): all pixels zero
NewRGBA(width, height) ==
    [w |-> width, h |-> height,
     pix |-> [q \in (0..(width - 1)) \X (0..(height - 1)) |-> <<0, 0, 0, 0>>]]

\* a fill that starts at the second row
fillWhiteBackgroundFromRow1(img, width, height) ==
    [img EXCEPT !.pix =
        [q \in DOMAIN img.pix |->
            IF q[1] \in 0..(width - 1) /\ q[2] \in 1..(height - 1)
            THEN White ELSE img.pix[q]]]

\* img.Set(x, y, white) for y in [0, height), x in [0, width); Set ignores
\* points outside the image
fillWhiteBackground(img, width, height) ==
    [img EXCEPT !.pix =
        [q \in DOMAIN img.pix |->
            IF q[1] \in 0..(width - 1) /\ q[2] \in 0..(height - 1)
            THEN White ELSE img.pix[q]]]

\* savePNG creates the output file and encodes the image into it; the
\* output path is taken to be writable
savePNG(img) == "nil"

createEmptyImage(width, height) ==
    LET img == fillWhiteBackground(NewRGBA(width, height), width, height)
    IN  [err |-> savePNG(img), img |-> img]

\* every stroke taken
QualifiesAny(ln) == TRUE

\* a stroke takes part in the bounding box and in drawing
Qualifies(ln) == ~(ln.brushType = "EraseArea" \/ Len(ln.points) < 2)

RECURSIVE PointsOf(_)
PointsOf(lns) ==
    IF lns = <<>> THEN <<>>
    ELSE (IF Qualifies(Head(lns)) THEN Head(lns).points ELSE <<>>)
         \o PointsOf(Tail(lns))

\* the min/max loop over the points, in order
RECURSIVE MinMax(_, _)
MinMax(pts, box) ==
    IF pts = <<>> THEN box
    ELSE LET q == Head(pts)
         IN  MinMax(Tail(pts),
                    IF ~box.hasPoints
                    THEN [hasPoints |-> TRUE,
                          minX |-> q.x, maxX |-> q.x,
                          minY |-> q.y, maxY |-> q.y]
                    ELSE [hasPoints |-> TRUE,
                          minX |-> IF q.x < box.minX THEN q.x ELSE box.minX,
                          maxX |-> IF q.x > box.maxX THEN q.x ELSE box.maxX,
                          minY |-> IF q.y < box.minY THEN q.y ELSE box.minY,
                          maxY |-> IF q.y > box.maxY THEN q.y ELSE box.maxY])

\* calculateBoundingBox; isNil is the nil result, paddings are held times
\* PaddingDen
calculateBoundingBox(page, config) ==
    LET box == MinMax(PointsOf(FlattenLines(page)),
                      [hasPoints |-> FALSE, minX |-> 0, maxX |-> 0,
                       minY |-> 0, maxY |-> 0])
        padX == (box.maxX - box.minX) * PaddingNum
        padY == (box.maxY - box.minY) * PaddingNum
        floor == config.MinPadding * PaddingDen
    IN  [isNil |-> ~box.hasPoints,
         minX |-> box.minX, maxX |-> box.maxX,
         minY |-> box.minY, maxY |-> box.maxY,
         paddingXScaled |-> IF padX < floor THEN floor ELSE padX,
         paddingYScaled |-> IF padY < floor THEN floor ELSE padY]

-----------------------------------------------------------------------------
(* Pens.  A brush size and a pressure are given in thousandths, a stroke   *)
(* width in millionths, an opacity in thousandths.  The pens whose width   *)
(* is computed from speed, tilt and device width (brush, ballpoint,        *)
(* marker, tilt pencil) are outside the modelled inputs.                   *)

\* Go's integer division and float-to-int conversion truncate toward zero
TruncDiv(a, b) ==
    IF (a >= 0) = (b > 0) \/ a = 0
    THEN (IF a >= 0 THEN a ELSE -a) \div (IF b > 0 THEN b ELSE -b)
    ELSE -((IF a >= 0 THEN a ELSE -a) \div (IF b > 0 THEN b ELSE -b))

\* floor(a * b / c) for c > 0 and b >= 0, without leaving 32 bits
MulDiv(a, b, c) == (a \div c) * b + ((a % c) * b) \div c

ColorPalette ==
    [id \in 0..13 |->
        CASE id = 0  -> <<0, 0, 0>>
          [] id = 1  -> <<144, 144, 144>>
          [] id = 2  -> <<255, 255, 255>>
          [] id = 3  -> <<251, 247, 25>>
          [] id = 4  -> <<0, 255, 0>>
          [] id = 5  -> <<255, 192, 203>>
          [] id = 6  -> <<78, 105, 201>>
          [] id = 7  -> <<179, 62, 57>>
          [] id = 8  -> <<125, 125, 125>>
          [] id = 9  -> <<251, 247, 25>>
          [] id = 10 -> <<161, 216, 125>>
          [] id = 11 -> <<139, 208, 229>>
          [] id = 12 -> <<183, 130, 205>>
          [] id = 13 -> <<247, 232, 81>>]

opacityFull == 1000
opacityMechanical == 700
opacityHighlighter == 300

IsHighlighter(bt) == bt = "Highlighter" \/ bt = "HighlighterV5"

NewPenRenderer(brushType, colorID, brushSize) ==
    LET color == IF colorID \in DOMAIN ColorPalette
                 THEN ColorPalette[colorID] ELSE ColorPalette[0]
    IN  CASE brushType \in {"Fineliner", "FinelinerV5"} ->
               [penType |-> brushType, baseColor |-> color,
                baseWidth |-> brushSize * 1800, baseOpacity |-> opacityFull]
          [] brushType \in {"SharpPencil", "SharpPencilV5"} ->
               [penType |-> brushType, baseColor |-> color,
                baseWidth |-> brushSize * brushSize,
                baseOpacity |-> opacityMechanical]
          [] IsHighlighter(brushType) ->
               [penType |-> brushType, baseColor |-> color,
                baseWidth |-> 15000000, baseOpacity |-> opacityHighlighter]
          [] brushType = "Eraser" ->
               [penType |-> brushType, baseColor |-> ColorPalette[2],
                baseWidth |-> brushSize * 2000, baseOpacity |-> opacityFull]
          [] brushType = "EraseArea" ->
               [penType |-> brushType, baseColor |-> ColorPalette[2],
                baseWidth |-> brushSize * 1000, baseOpacity |-> 0]

\* GetStrokeWidth: the mechanical pencil has a case of its own; fineliner,
\* eraser and highlighter have none and take the default branch,
\* baseWidth * (0.5 + pressure*0.5)
GetStrokeWidth(pr, pressure) ==
    CASE pr.penType \in {"SharpPencil", "SharpPencilV5"} -> pr.baseWidth
      [] pr.penType \in {"Fineliner", "FinelinerV5", "Eraser", "EraseArea",
                         "Highlighter", "HighlighterV5"} ->
           MulDiv(pr.baseWidth, 1000 + pressure, 2000)

\* GetStrokeColor: the default branch
GetStrokeColor(pr) == pr.baseColor

\* GetStrokeOpacity
GetStrokeOpacity(pr) ==
    CASE IsHighlighter(pr.penType) -> 200
      [] pr.penType = "EraseArea" -> 0
      [] OTHER -> pr.baseOpacity

\* uint8(255 * opacity)
AlphaOf(opacity) == (255 * opacity) \div 1000

-----------------------------------------------------------------------------
(* Image dimensions and drawing.  float32 quantities are carried as exact  *)
(* fractions; a scale factor is the pair num/den.  A drawing context is    *)
(* the image together with two records kept for the properties: `touched`, *)
(* the pixel positions read or written, and `shape`, the positions the     *)
(* geometric tests selected before any clipping.                           *)

defaultMinStrokeWidth == 1
defaultMaxStrokeWidth == 8
highlighterMinWidth == 20
highlighterMaxWidth == 100
\* an alpha that differs from one render to the next
highlighterAlphaByRun == (255 * 45) \div 100 + (run - 1)

\* uint8(float32(255) * highlighterOpacity), highlighterOpacity = 0.45
highlighterAlpha == (255 * 45) \div 100

Abs(a) == IF a < 0 THEN -a ELSE a

\* calculateImageDimensions
calculateImageDimensions(b, OutputWidth) ==
    LET cw100 == 100 * (b.maxX - b.minX) + 2 * b.paddingXScaled
        ch100 == 100 * (b.maxY - b.minY) + 2 * b.paddingYScaled
    IN  IF cw100 <= 0
        THEN [num |-> 1, den |-> 1, width |-> OutputWidth,
              height |-> minImageHeight]
        ELSE [num |-> 100 * OutputWidth, den |-> cw100,
              width |-> OutputWidth,
              height |-> TruncDiv(ch100 * OutputWidth, cw100)]

\* transformPoint
transformPoint(x, y, b, sc) ==
    [x |-> TruncDiv((100 * (x - b.minX) + b.paddingXScaled) * sc.num,
                    100 * sc.den),
     y |-> TruncDiv((100 * (y - b.minY) + b.paddingYScaled) * sc.num,
                    100 * sc.den)]

\* clampStrokeWidth
clampStrokeWidth(width) ==
    IF width < defaultMinStrokeWidth THEN defaultMinStrokeWidth
    ELSE IF width > defaultMaxStrokeWidth THEN defaultMaxStrokeWidth
    ELSE width

\* int(width * StrokeWidthScale), StrokeWidthScale = 0.25, width in millionths
ScaledWidth(width) == TruncDiv(width, 4000000)

\* calculateHighlighterWidth: int(15.0 * 0.25 * 4.0), clamped
calculateHighlighterWidth ==
    LET width == (15 * 25 * 4) \div 100
    IN  IF width < highlighterMinWidth THEN highlighterMinWidth
        ELSE IF width > highlighterMaxWidth THEN highlighterMaxWidth
        ELSE width

\* lightenColor: uint8(float32(c)*0.7 + 255*0.3) for every channel
lightenColor(baseColor) ==
    [k \in 1..3 |-> (7 * baseColor[k] + 765) \div 10]

\* blendColors: the over operator with alpha = fg.A / 255; the result is
\* opaque
blendColors(bg, fg) ==
    <<(fg[4] * fg[1] + (255 - fg[4]) * bg[1]) \div 255,
      (fg[4] * fg[2] + (255 - fg[4]) * bg[2]) \div 255,
      (fg[4] * fg[3] + (255 - fg[4]) * bg[3]) \div 255,
      255>>

\* a test that lets every position through
InCanvasAlways(px, py, imgWidth, imgHeight) == TRUE

\* the bounds test in front of every pixel access
InCanvas(px, py, imgWidth, imgHeight) ==
    px >= 0 /\ px < imgWidth /\ py >= 0 /\ py < imgHeight

\* a drawing context: the image, the passes of pixel accesses made on it so
\* far, in order, and the two records
Context(img) == [img |-> img, ops |-> <<>>, touched |-> {}, shape |-> {}]

\* the positions a circle selects: dx*dx + dy*dy <= radius*radius
CircleShape(cx, cy, radius) ==
    IF radius <= 0 THEN {}
    ELSE {q \in ((cx - radius)..(cx + radius)) \X ((cy - radius)..(cy + radius)) :
             (q[1] - cx) * (q[1] - cx) + (q[2] - cy) * (q[2] - cy)
                <= radius * radius}

\* the passes `calls` are made one after the other; a pass over the
\* positions `at` is img.Set(x, y, c), or, when blended,
\* img.Set(x, y, blendColors(img.RGBAAt(x, y), c))
DoAll(g, calls) ==
    [g EXCEPT !.ops = @ \o calls,
              !.touched = @ \cup UNION {calls[i].at : i \in DOMAIN calls},
              !.shape = @ \cup UNION {calls[i].sel : i \in DOMAIN calls}]

\* the value of position q after the blended passes `todo` (indexes into
\* ops), lowest index first
RECURSIVE BlendAll(_, _, _)
BlendAll(v, ops, todo) ==
    IF todo = {} THEN v
    ELSE LET i == CHOOSE k \in todo : \A j \in todo : k <= j
         IN  BlendAll(blendColors(v, ops[i].c), ops, todo \ {i})

\* the value of position q after all passes: the colour of the last Set
\* that reached it, blended with what came after
PixelAfter(v, q, ops) ==
    LET hits == {i \in DOMAIN ops : q \in ops[i].at}
        sets == {i \in hits : ~ops[i].blended}
        lastSet == IF sets = {} THEN 0
                   ELSE CHOOSE k \in sets : \A j \in sets : k >= j
    IN  BlendAll(IF lastSet = 0 THEN v ELSE ops[lastSet].c, ops,
                 {i \in hits : i > lastSet})

\* the image after all passes; Set leaves positions outside the image alone
ImageOf(g) ==
    [g.img EXCEPT !.pix =
        [q \in DOMAIN g.img.pix |-> PixelAfter(g.img.pix[q], q, g.ops)]]

\* the loops of drawFilledCircle and drawFilledCircleBlended
CirclePass(cx, cy, radius, c, imgWidth, imgHeight, blended) ==
    LET sel == CircleShape(cx, cy, radius)
    IN  [at |-> {q \in sel : InCanvas(q[1], q[2], imgWidth, imgHeight)},
         sel |-> sel, blended |-> blended, c |-> c,
         centre |-> IF radius <= 0 THEN {} ELSE {<<cx, cy>>}]

\* drawFilledCircle
drawFilledCircle(g, cx, cy, radius, c, imgWidth, imgHeight) ==
    DoAll(g, <<CirclePass(cx, cy, radius, c, imgWidth, imgHeight, FALSE)>>)

\* drawFilledCircleBlended
drawFilledCircleBlended(g, cx, cy, radius, c, imgWidth, imgHeight) ==
    DoAll(g, <<CirclePass(cx, cy, radius, c, imgWidth, imgHeight, TRUE)>>)

\* pointInPolygon: ray casting with Go's integer division
pointInPolygon(x, y, xs, ys) ==
    LET n == Len(xs)
        Prev(i) == IF i = 1 THEN n ELSE i - 1
        Crosses(i) ==
            /\ (ys[i] > y) # (ys[Prev(i)] > y)
            /\ x < TruncDiv((xs[Prev(i)] - xs[i]) * (y - ys[i]),
                            ys[Prev(i)] - ys[i]) + xs[i]
    IN  Cardinality({i \in 1..n : Crosses(i)}) % 2 = 1

SeqMin(q) == CHOOSE m \in {q[i] : i \in DOMAIN q} : \A i \in DOMAIN q : m <= q[i]
SeqMax(q) == CHOOSE m \in {q[i] : i \in DOMAIN q} : \A i \in DOMAIN q : m >= q[i]

\* drawFilledPolygonBlended
drawFilledPolygonBlended(g, xs, ys, c, imgWidth, imgHeight) ==
    IF Len(xs) # Len(ys) \/ Len(xs) < 3 THEN g
    ELSE LET minX == IF SeqMin(xs) < 0 THEN 0 ELSE SeqMin(xs)
             maxX == IF SeqMax(xs) >= imgWidth THEN imgWidth - 1 ELSE SeqMax(xs)
             minY == IF SeqMin(ys) < 0 THEN 0 ELSE SeqMin(ys)
             maxY == IF SeqMax(ys) >= imgHeight THEN imgHeight - 1 ELSE SeqMax(ys)
             sel == {q \in (SeqMin(xs)..SeqMax(xs)) \X (SeqMin(ys)..SeqMax(ys)) :
                          pointInPolygon(q[1], q[2], xs, ys)}
             at == {q \in (minX..maxX) \X (minY..maxY) :
                       /\ pointInPolygon(q[1], q[2], xs, ys)
                       /\ InCanvas(q[1], q[2], imgWidth, imgHeight)}
         IN  DoAll(g, <<[at |-> at, sel |-> sel, blended |-> TRUE, c |-> c,
                         centre |-> {}]>>)

\* int(math.Sqrt(n)) for a whole number n >= 0
ISqrt(n) == CHOOSE k \in 0..n : k * k <= n /\ n < (k + 1) * (k + 1)

\* the circle of step i of drawVariableWidthLineWithColor: position
\* int(x + 0.5), radius int(width + 0.5) and at least 1, colour and opacity
\* interpolated with t = i / steps
LineStep(i, steps, x1, y1, width1, x2, y2, width2, color1, color2, opacity1, opacity2, imgWidth, imgHeight) ==
    LET x == TruncDiv(2 * (x1 * steps + (x2 - x1) * i) + steps, 2 * steps)
        y == TruncDiv(2 * (y1 * steps + (y2 - y1) * i) + steps, 2 * steps)
        r0 == TruncDiv(2 * (width1 * steps + (width2 - width1) * i) + steps,
                       2 * steps)
        radius == IF r0 < 1 THEN 1 ELSE r0
        c == [k \in 1..4 |->
                 IF k < 4
                 THEN TruncDiv(color1[k] * steps + (color2[k] - color1[k]) * i,
                               steps)
                 ELSE TruncDiv(255 * (opacity1 * steps
                                      + (opacity2 - opacity1) * i),
                               1000 * steps)]
    IN  CirclePass(x, y, radius, c, imgWidth, imgHeight, FALSE)

\* drawVariableWidthLineWithColor: one circle for a segment of length 0,
\* else the circles of the steps 0..steps
drawVariableWidthLineWithColor(g, x1, y1, width1, x2, y2, width2, color1, color2, opacity1, opacity2, imgWidth, imgHeight) ==
    LET len2 == (x2 - x1) * (x2 - x1) + (y2 - y1) * (y2 - y1)
        steps0 == ISqrt(len2) + 1
        steps == IF steps0 < 2 THEN 2 ELSE steps0
    IN  IF len2 = 0
        THEN drawFilledCircle(g, x1, y1, width1,
                              <<color1[1], color1[2], color1[3],
                                AlphaOf(opacity1)>>,
                              imgWidth, imgHeight)
        ELSE DoAll(g, [k \in 1..(steps + 1) |->
                          LineStep(k - 1, steps, x1, y1, width1, x2, y2,
                                   width2, color1, color2, opacity1,
                                   opacity2, imgWidth, imgHeight)])

RECURSIVE RegularSegments(_, _, _, _, _, _, _, _)
RegularSegments(g, i, ln, b, sc, pen, imgWidth, imgHeight) ==
    IF i > Len(ln.points) - 1 THEN g
    ELSE LET p1 == ln.points[i]
             p2 == ln.points[i + 1]
             q1 == transformPoint(p1.x, p1.y, b, sc)
             q2 == transformPoint(p2.x, p2.y, b, sc)
             pixelWidth1 ==
                 clampStrokeWidth(ScaledWidth(GetStrokeWidth(pen, p1.pressure)))
             pixelWidth2 ==
                 clampStrokeWidth(ScaledWidth(GetStrokeWidth(pen, p2.pressure)))
         IN  RegularSegments(
                 drawVariableWidthLineWithColor(
                     g, q1.x, q1.y, pixelWidth1, q2.x, q2.y, pixelWidth2,
                     GetStrokeColor(pen), GetStrokeColor(pen),
                     GetStrokeOpacity(pen), GetStrokeOpacity(pen),
                     imgWidth, imgHeight),
                 i + 1, ln, b, sc, pen, imgWidth, imgHeight)

\* drawRegularStroke: the circle of the first point, then the segments
drawRegularStroke(g, ln, b, sc, imgWidth, imgHeight, pen) ==
    LET p0 == ln.points[1]
        q0 == transformPoint(p0.x, p0.y, b, sc)
        radius0 == clampStrokeWidth(ScaledWidth(GetStrokeWidth(pen, p0.pressure)))
        color0 == GetStrokeColor(pen)
        strokeColor0 == <<color0[1], color0[2], color0[3],
                          AlphaOf(GetStrokeOpacity(pen))>>
    IN  RegularSegments(
            drawFilledCircle(g, q0.x, q0.y, radius0, strokeColor0,
                             imgWidth, imgHeight),
            1, ln, b, sc, pen, imgWidth, imgHeight)

\* floor(a / sqrt(m)) and ceiling(a / sqrt(m)) for m > 0, |a| / sqrt(m) <= bound
FloorDivSqrt(a, m, bound) ==
    IF a >= 0
    THEN CHOOSE k \in 0..bound :
             k * k * m <= a * a /\ (k + 1) * (k + 1) * m > a * a
    ELSE -(CHOOSE k \in 0..(bound + 1) :
             k * k * m >= a * a /\ (k = 0 \/ (k - 1) * (k - 1) * m < a * a))

CeilDivSqrt(a, m, bound) == -FloorDivSqrt(-a, m, bound)

\* int(c + a / sqrt(m)): the conversion truncates toward zero
Corner(c, a, m, bound) ==
    IF c + FloorDivSqrt(a, m, bound) >= 0
    THEN c + FloorDivSqrt(a, m, bound)
    ELSE c + CeilDivSqrt(a, m, bound)

\* segment i of drawThickContinuousStroke: nothing for a segment of length
\* 0; else the rectangle, and the cap at the end point when the segment
\* is the last one
ThickSegment(g, i, points, width, strokeColor, imgWidth, imgHeight) ==
    LET p1 == points[i]
        p2 == points[i + 1]
        dx == p2.x - p1.x
        dy == p2.y - p1.y
        m == 4 * (dx * dx + dy * dy)
        sx1 == Corner(p1.x, -dy * width, m, width)
        sy1 == Corner(p1.y, dx * width, m, width)
        sx2 == Corner(p1.x, dy * width, m, width)
        sy2 == Corner(p1.y, -dx * width, m, width)
        ex1 == Corner(p2.x, -dy * width, m, width)
        ey1 == Corner(p2.y, dx * width, m, width)
        ex2 == Corner(p2.x, dy * width, m, width)
        ey2 == Corner(p2.y, -dx * width, m, width)
        filled == drawFilledPolygonBlended(g, <<sx1, sx2, ex2, ex1>>,
                                           <<sy1, sy2, ey2, ey1>>,
                                           strokeColor, imgWidth, imgHeight)
    IN  IF m = 0 THEN g
        ELSE IF i = Len(points) - 1
        THEN drawFilledCircleBlended(filled, p2.x, p2.y, width \div 2,
                                     strokeColor, imgWidth, imgHeight)
        ELSE filled

RECURSIVE ThickSegments(_, _, _, _, _, _, _)
ThickSegments(g, i, points, width, strokeColor, imgWidth, imgHeight) ==
    IF i > Len(points) - 1 THEN g
    ELSE ThickSegments(ThickSegment(g, i, points, width, strokeColor,
                                    imgWidth, imgHeight),
                       i + 1, points, width, strokeColor, imgWidth, imgHeight)

\* drawThickContinuousStroke: the segments, then the cap at the start point
drawThickContinuousStroke(g, points, width, strokeColor, imgWidth, imgHeight) ==
    IF Len(points) < 2 THEN g
    ELSE drawFilledCircleBlended(
             ThickSegments(g, 1, points, width, strokeColor, imgWidth,
                           imgHeight),
             points[1].x, points[1].y, width \div 2, strokeColor,
             imgWidth, imgHeight)

\* drawHighlighterLine
drawHighlighterLine(g, ln, b, sc, imgWidth, imgHeight, pen) ==
    IF Len(ln.points) < 2 THEN g
    ELSE LET lightColor == lightenColor(pen.baseColor)
             points == [i \in DOMAIN ln.points |->
                           transformPoint(ln.points[i].x, ln.points[i].y, b, sc)]
             strokeColor == <<lightColor[1], lightColor[2], lightColor[3],
                              highlighterAlpha>>
         IN  drawThickContinuousStroke(g, points, calculateHighlighterWidth,
                                       strokeColor, imgWidth, imgHeight)

\* drawLine
drawLine(g, ln, b, sc, imgWidth, imgHeight, pen) ==
    IF Len(ln.points) = 0 THEN g
    ELSE IF IsHighlighter(ln.brushType)
    THEN drawHighlighterLine(g, ln, b, sc, imgWidth, imgHeight, pen)
    ELSE drawRegularStroke(g, ln, b, sc, imgWidth, imgHeight, pen)

-----------------------------------------------------------------------------
(* Operations on an archive as a state machine.                            *)

PageOps == {"getJson", "buildBatchInput", "generateJSON", "Visualize"}
RunOps == {"Hwr", "processHWR"}

Requests ==
    [op : RunOps, page : (-1)..(MaxPages + 1)]
    \cup [op : PageOps \ {"Visualize"}, page : (-1)..(MaxPages + 1)]
    \cup [op : {"Visualize"}, page : (-1)..(MaxPages + 1),
          OutputWidth : 1..MaxWidth, MinPadding : {MinPadding}]
    \cup [op : {"handleConvert"}, page : (-1)..(MaxPages + 1)]

\* the pages of the archives posted to /api/convert: without data, without
\* strokes, with strokes
ConvertPageNames == {"nil", "emptylayer", "ink"}

Zips(op) ==
    [pages : IF op \in RunOps THEN SeqsUpTo(HwrPageNames, MaxHwrPages)
             ELSE IF op = "handleConvert"
             THEN SeqsUpTo(ConvertPageNames, MaxPages)
             ELSE SeqsUpTo(DOMAIN PageLib, MaxPages),
     lastOpened : 0..(IF op \in RunOps \cup {"handleConvert"}
                      THEN MaxPages ELSE 0)]

PageInit ==
    /\ ParseIdle
    /\ MainIdle
    /\ req \in Requests
    /\ zip \in Zips(req.op)
    /\ hpc = "init"
    /\ loopP = 0
    /\ pend = 0
    /\ result = <<>>
    /\ sem = 0
    /\ workers = <<>>
    /\ launched = <<>>
    /\ opErr = "none"
    /\ opOut = "none"
    /\ bbox = [isNil |-> TRUE]
    /\ RenderIdle

\* Hwr lines 181-199
HwrStart ==
    /\ req.op = "Hwr" /\ hpc = "init"
    /\ LET r == HwrRange(zip, req.page)
       IN  /\ result' = [i \in 1..r.capacity |-> "nil"]
           /\ loopP' = r.start
           /\ pend' = r.end
    /\ hpc' = "loop"
    /\ UNCHANGED <<zip, req, sem, workers, launched, opErr, opOut, bbox>>
    /\ UNCHANGED renderVars
    /\ UNCHANGED parseVars
    /\ UNCHANGED mainVars

\* a loop that starts the goroutine of page p without waiting for a permit
HwrSpawnUnlimited ==
    /\ req.op = "Hwr" /\ hpc = "loop"
    /\ loopP <= pend
    /\ sem' = sem + 1
    /\ workers' = (loopP :> "json") @@ workers
    /\ launched' = Append(launched, loopP)
    /\ loopP' = loopP + 1
    /\ UNCHANGED <<zip, req, hpc, pend, result, opErr, opOut, bbox>>
    /\ UNCHANGED renderVars
    /\ UNCHANGED parseVars
    /\ UNCHANGED mainVars

\* Hwr lines 201-207: one iteration of the loop acquires a permit and
\* starts the goroutine of page p
HwrSpawn ==
    /\ req.op = "Hwr" /\ hpc = "loop"
    /\ loopP <= pend
    /\ sem < BatchSize
    /\ sem' = sem + 1
    /\ workers' = (loopP :> "json") @@ workers
    /\ launched' = Append(launched, loopP)
    /\ loopP' = loopP + 1
    /\ UNCHANGED <<zip, req, hpc, pend, result, opErr, opOut, bbox>>
    /\ UNCHANGED renderVars
    /\ UNCHANGED parseVars
    /\ UNCHANGED mainVars

\* Hwr line 272: the loop is over
HwrLoopEnd ==
    /\ req.op = "Hwr" /\ hpc = "loop"
    /\ loopP > pend
    /\ hpc' = "wait"
    /\ UNCHANGED <<zip, req, loopP, pend, result, sem, workers, launched,
                   opErr, opOut, bbox>>
    /\ UNCHANGED renderVars
    /\ UNCHANGED parseVars
    /\ UNCHANGED mainVars

HwrAlive == req.op = "Hwr" /\ hpc \in {"loop", "wait"}

\* Hwr lines 209-212: getJson; its error ends the process (log.Fatalf)
WorkerGetJson(w) ==
    /\ HwrAlive
    /\ w \in DOMAIN workers /\ workers[w] = "json"
    /\ LET r == getJson(zip, w)
       IN  IF r.err # "nil"
           THEN /\ hpc' = "fatal"
                /\ opErr' = r.err
                /\ UNCHANGED workers
           ELSE /\ workers' = [workers EXCEPT ![w] = "send"]
                /\ UNCHANGED <<hpc, opErr>>
    /\ UNCHANGED <<zip, req, loopP, pend, result, sem, launched, opOut, bbox>>
    /\ UNCHANGED renderVars
    /\ UNCHANGED parseVars
    /\ UNCHANGED mainVars

\* Hwr lines 240-246: the request to the recognition service; its error
\* ends the process (log.Fatal)
WorkerSend(w) ==
    /\ HwrAlive
    /\ w \in DOMAIN workers /\ workers[w] = "send"
    /\ \E ok \in BOOLEAN :
          IF ok
          THEN /\ workers' = [workers EXCEPT ![w] = "write"]
               /\ UNCHANGED <<hpc, opErr>>
          ELSE /\ hpc' = "fatal"
               /\ opErr' = "request failed"
               /\ UNCHANGED workers
    /\ UNCHANGED <<zip, req, loopP, pend, result, sem, launched, opOut, bbox>>
    /\ UNCHANGED renderVars
    /\ UNCHANGED parseVars
    /\ UNCHANGED mainVars

\* Hwr line 268: result[p] = body; an index outside the slice panics
WorkerWrite(w) ==
    /\ HwrAlive
    /\ w \in DOMAIN workers /\ workers[w] = "write"
    /\ IF w < 0 \/ w >= Len(result)
       THEN /\ hpc' = "panic"
            /\ UNCHANGED <<result, workers>>
       ELSE /\ result' = [result EXCEPT ![w + 1] = <<"body", w>>]
            /\ workers' = [workers EXCEPT ![w] = "release"]
            /\ UNCHANGED hpc
    /\ UNCHANGED <<zip, req, loopP, pend, sem, launched, opErr, opOut, bbox>>
    /\ UNCHANGED renderVars
    /\ UNCHANGED parseVars
    /\ UNCHANGED mainVars

\* Hwr line 208: defer sem.Release(1)
WorkerRelease(w) ==
    /\ HwrAlive
    /\ w \in DOMAIN workers /\ workers[w] = "release"
    /\ sem' = sem - 1
    /\ workers' = [workers EXCEPT ![w] = "done"]
    /\ UNCHANGED <<zip, req, hpc, loopP, pend, result, launched, opErr,
                   opOut, bbox>>
    /\ UNCHANGED renderVars
    /\ UNCHANGED parseVars
    /\ UNCHANGED mainVars

\* an output that does not wait for the permits
HwrOutputEarly ==
    /\ req.op = "Hwr" /\ hpc = "wait"
    /\ sem' = BatchSize
    /\ opOut' = result
    /\ hpc' = "done"
    /\ UNCHANGED <<zip, req, loopP, pend, result, workers, launched, opErr,
                   bbox>>
    /\ UNCHANGED renderVars
    /\ UNCHANGED parseVars
    /\ UNCHANGED mainVars

\* Hwr lines 273-293: all permits are acquired, then the slots are printed
\* or written in index order
HwrOutput ==
    /\ req.op = "Hwr" /\ hpc = "wait"
    /\ sem = 0
    /\ sem' = BatchSize
    /\ opOut' = result
    /\ hpc' = "done"
    /\ UNCHANGED <<zip, req, loopP, pend, result, workers, launched, opErr,
                   bbox>>
    /\ UNCHANGED renderVars
    /\ UNCHANGED parseVars
    /\ UNCHANGED mainVars

\* processHWR lines 302-315
SrvStart ==
    /\ req.op = "processHWR" /\ hpc = "init"
    /\ LET r == SrvRange(zip, req.page)
       IN  /\ loopP' = r.start
           /\ pend' = r.end
    /\ result' = <<>>
    /\ hpc' = "loop"
    /\ UNCHANGED <<zip, req, sem, workers, launched, opErr, opOut, bbox>>
    /\ UNCHANGED renderVars
    /\ UNCHANGED parseVars
    /\ UNCHANGED mainVars

\* processHWR lines 317-334: one iteration; an error of buildBatchInput or
\* of the request skips the page, an empty text is not stored
SrvIter ==
    /\ req.op = "processHWR" /\ hpc = "loop"
    /\ loopP <= pend
    /\ launched' = Append(launched, loopP)
    /\ LET r == buildBatchInput(zip, loopP)
       IN  IF r.err # "nil"
           THEN UNCHANGED result
           ELSE \E sent \in BOOLEAN, empty \in BOOLEAN :
                    IF sent /\ ~empty
                    THEN result' = (loopP :> <<"text", loopP>>) @@ result
                    ELSE UNCHANGED result
    /\ loopP' = loopP + 1
    /\ UNCHANGED <<zip, req, hpc, pend, sem, workers, opErr, opOut, bbox>>
    /\ UNCHANGED renderVars
    /\ UNCHANGED parseVars
    /\ UNCHANGED mainVars

\* processHWR line 336
SrvReturn ==
    /\ req.op = "processHWR" /\ hpc = "loop"
    /\ loopP > pend
    /\ opOut' = result
    /\ hpc' = "done"
    /\ UNCHANGED <<zip, req, loopP, pend, result, sem, workers, launched,
                   opErr, bbox>>
    /\ UNCHANGED renderVars
    /\ UNCHANGED parseVars
    /\ UNCHANGED mainVars

OpReturn(r) ==
    /\ opErr' = r.err
    /\ opOut' = r.out
    /\ hpc' = "done"
    /\ UNCHANGED <<zip, req, loopP, pend, result, sem, workers, launched,
                   bbox>>
    /\ UNCHANGED renderVars
    /\ UNCHANGED parseVars
    /\ UNCHANGED mainVars

OpGetJson ==
    /\ req.op = "getJson" /\ hpc = "init"
    /\ OpReturn(getJson(zip, req.page))

OpBuildBatchInput ==
    /\ req.op = "buildBatchInput" /\ hpc = "init"
    /\ OpReturn(buildBatchInput(zip, req.page))

OpGenerateJSON ==
    /\ req.op = "generateJSON" /\ hpc = "init"
    /\ OpReturn(generateJSON(zip, req.page))

\* a pass that draws every qualifying stroke whatever its pen type
DrawableInBothPasses(ln, drawHighlighters) ==
    ~(ln.brushType = "EraseArea" \/ Len(ln.points) < 2)

\* handleConvert lines 526-534: the page indices to convert; `page` is the
\* form value, -1 when it is absent or not a number
pagesToConvert(z, page) ==
    IF page >= 0 THEN <<page - 1>>
    ELSE [i \in 1..Len(z.pages) |-> i - 1]

\* handleConvert lines 553-559
hasStrokes(pg) == \E l \in DOMAIN pg : Len(pg[l]) > 0

\* handleConvert lines 538-598: page index p yields a PNG when it is in
\* range, has data and strokes; VisualizePage then writes a PNG that is
\* found, non-empty and decodable
Converted(z, p) ==
    /\ ~(p < 0 \/ p >= Len(z.pages))
    /\ z.pages[p + 1] # "nil"
    /\ hasStrokes(PageData(z, p))

\* handleConvert lines 536-656: the response, as the page indices of the
\* PNG files page_<p>.png in the returned zip
handleConvert(z, page) ==
    LET Keep(p) == Converted(z, p)
        pngFiles == SelectSeq(pagesToConvert(z, page), Keep)
    IN  IF Len(pngFiles) = 0
        THEN [err |-> "No pages converted", out |-> <<>>]
        ELSE [err |-> "nil", out |-> pngFiles]

OpConvert ==
    /\ req.op = "handleConvert" /\ hpc = "init"
    /\ OpReturn(handleConvert(zip, req.page))

\* the strokes one pass of drawStrokesByType draws, as <<layer, line>> in
\* loop order
Drawable(ln, drawHighlighters) ==
    /\ ~(ln.brushType = "EraseArea" \/ Len(ln.points) < 2)
    /\ ~(\/ (drawHighlighters /\ ~IsHighlighter(ln.brushType))
         \/ (~drawHighlighters /\ IsHighlighter(ln.brushType)))

RECURSIVE DrawList(_, _, _)
DrawList(page, l, drawHighlighters) ==
    IF l > Len(page) THEN <<>>
    ELSE LET Keep(e) == Drawable(page[e[1]][e[2]], drawHighlighters)
         IN  SelectSeq([i \in 1..Len(page[l]) |-> <<l, i>>], Keep)
             \o DrawList(page, l + 1, drawHighlighters)

\* VisualizePageWithConfig lines 555-579: the page checks, the bounding
\* box, the blank canvas when no stroke qualifies, else the dimensions and
\* the white canvas
VisualizeBegin ==
    /\ req.op = "Visualize" /\ hpc = "init"
    /\ IF req.page < 0 \/ req.page >= Len(zip.pages)
       THEN /\ opErr' = "nil" /\ opOut' = "none" /\ hpc' = "done"
            /\ UNCHANGED <<bbox, dims, canvas>>
       ELSE IF PageData(zip, req.page) = "nil"
       THEN /\ opErr' = "nil" /\ opOut' = "none" /\ hpc' = "done"
            /\ UNCHANGED <<bbox, dims, canvas>>
       ELSE LET b == calculateBoundingBox(PageData(zip, req.page), req)
            IN  /\ bbox' = b
                /\ IF b.isNil
                   THEN LET r == createEmptyImage(req.OutputWidth,
                                                  minImageHeight)
                        IN  /\ opErr' = r.err
                            /\ opOut' = r.img
                            /\ hpc' = "done"
                            /\ UNCHANGED <<dims, canvas>>
                   ELSE LET d == calculateImageDimensions(b, req.OutputWidth)
                            imgHeight == IF d.height < minImageHeight
                                         THEN minImageHeight ELSE d.height
                        IN  /\ dims' = d
                            /\ canvas' = fillWhiteBackground(
                                             NewRGBA(d.width, imgHeight),
                                             d.width, imgHeight)
                            /\ hpc' = "highlighters"
                            /\ UNCHANGED <<opErr, opOut>>
    /\ UNCHANGED <<zip, req, loopP, pend, result, sem, workers, launched,
                   drawn, run, firstOut>>
    /\ UNCHANGED parseVars
    /\ UNCHANGED mainVars

InPass == req.op = "Visualize" /\ hpc \in {"highlighters", "others"}

\* how many strokes the current pass has drawn
DrawnInPass ==
    Cardinality({i \in DOMAIN drawn :
                    drawn[i].highlighters = (hpc = "highlighters")})

\* drawStrokesByType lines 686-699: the loop runs up to the next stroke of
\* the pass and draws it
DrawStroke ==
    /\ InPass
    /\ LET page == PageData(zip, req.page)
           list == DrawList(page, 1, hpc = "highlighters")
       IN  /\ DrawnInPass < Len(list)
           /\ LET e == list[DrawnInPass + 1]
                  ln == page[e[1]][e[2]]
                  pen == NewPenRenderer(ln.brushType, ln.brushColor,
                                        ln.brushSize)
                  g == drawLine(Context(canvas), ln, bbox, dims, canvas.w,
                                canvas.h, pen)
              IN  /\ canvas' = ImageOf(g)
                  /\ drawn' = Append(drawn,
                        [highlighters |-> hpc = "highlighters",
                         layer |-> e[1], line |-> e[2],
                         widths |-> IF IsHighlighter(ln.brushType) THEN <<>>
                                    ELSE [i \in DOMAIN ln.points |->
                                            GetStrokeWidth(pen,
                                                ln.points[i].pressure)],
                         touched |-> g.touched,
                         shape |-> g.shape,
                         caps |-> UNION {g.ops[k].centre :
                                     k \in {j \in DOMAIN g.ops :
                                               g.ops[j].blended}}])
    /\ UNCHANGED <<zip, req, hpc, loopP, pend, result, sem, workers, launched,
                   opErr, opOut, bbox, dims, run, firstOut>>
    /\ UNCHANGED parseVars
    /\ UNCHANGED mainVars

\* an end of pass that puts another page in place of the rendered one
PassEndReplacingPage ==
    /\ InPass /\ hpc = "highlighters"
    /\ DrawnInPass = Len(DrawList(PageData(zip, req.page), 1, TRUE))
    /\ hpc' = "others"
    /\ zip' = [zip EXCEPT !.pages = <<"r_wide">>]
    /\ UNCHANGED <<req, loopP, pend, result, sem, workers, launched,
                   opErr, opOut, bbox, renderVars>>
    /\ UNCHANGED parseVars
    /\ UNCHANGED mainVars

\* drawStrokes lines 678-681: the first pass is over, the second begins
PassEnd ==
    /\ InPass /\ hpc = "highlighters"
    /\ DrawnInPass = Len(DrawList(PageData(zip, req.page), 1, TRUE))
    /\ hpc' = "others"
    /\ UNCHANGED <<zip, req, loopP, pend, result, sem, workers, launched,
                   opErr, opOut, bbox, renderVars>>
    /\ UNCHANGED parseVars
    /\ UNCHANGED mainVars

\* VisualizePageWithConfig line 585: the second pass is over, the image is
\* saved
VisualizeSave ==
    /\ InPass /\ hpc = "others"
    /\ DrawnInPass = Len(DrawList(PageData(zip, req.page), 1, FALSE))
    /\ opErr' = savePNG(canvas)
    /\ opOut' = canvas
    /\ hpc' = "done"
    /\ UNCHANGED <<zip, req, loopP, pend, result, sem, workers, launched,
                   bbox, renderVars>>
    /\ UNCHANGED parseVars
    /\ UNCHANGED mainVars

\* the same page is rendered once more with the same configuration
VisualizeAgain ==
    /\ req.op = "Visualize" /\ hpc = "done"
    /\ run = 1
    /\ PageInRange(zip, req.page)
    /\ zip.pages[req.page + 1] # "nil"
    /\ firstOut' = opOut
    /\ run' = 2
    /\ hpc' = "init"
    /\ opErr' = "none"
    /\ opOut' = "none"
    /\ bbox' = [isNil |-> TRUE]
    /\ dims' = [num |-> 1, den |-> 1, width |-> 0, height |-> 0]
    /\ canvas' = [w |-> 0, h |-> 0, pix |-> <<>>]
    /\ drawn' = <<>>
    /\ UNCHANGED <<zip, req, loopP, pend, result, sem, workers, launched>>
    /\ UNCHANGED parseVars
    /\ UNCHANGED mainVars

PageNext ==
    \/ HwrStart
    \/ HwrSpawn
    \/ HwrLoopEnd
    \/ \E w \in DOMAIN workers : WorkerGetJson(w)
    \/ \E w \in DOMAIN workers : WorkerSend(w)
    \/ \E w \in DOMAIN workers : WorkerWrite(w)
    \/ \E w \in DOMAIN workers : WorkerRelease(w)
    \/ HwrOutput
    \/ SrvStart
    \/ SrvIter
    \/ SrvReturn
    \/ OpGetJson
    \/ OpBuildBatchInput
    \/ OpGenerateJSON
    \/ OpConvert
    \/ VisualizeBegin
    \/ DrawStroke
    \/ PassEnd
    \/ VisualizeSave

PageSpec == PageInit /\ [][PageNext]_vars

\* OutputWidth of the render runs
RenderWidths == {4 * k : k \in 1..MaxWidth} \cup {22 * MaxWidth}

RenderInit ==
    /\ ParseIdle
    /\ MainIdle
    /\ req \in [op : {"Visualize"}, page : {0}, OutputWidth : RenderWidths,
                 MinPadding : {MinPadding}]
    /\ zip \in [pages : {<<name>> : name \in DOMAIN RenderLib},
                lastOpened : {0}]
    /\ hpc = "init"
    /\ loopP = 0
    /\ pend = 0
    /\ result = <<>>
    /\ sem = 0
    /\ workers = <<>>
    /\ launched = <<>>
    /\ opErr = "none"
    /\ opOut = "none"
    /\ bbox = [isNil |-> TRUE]
    /\ RenderIdle

RenderNext ==
    \/ VisualizeBegin
    \/ DrawStroke
    \/ PassEnd
    \/ VisualizeSave
    \/ VisualizeAgain

RenderSpec == RenderInit /\ [][RenderNext]_vars

\* renders with the configured and with no minimum padding
CanvasInit ==
    /\ ParseIdle
    /\ MainIdle
    /\ req \in [op : {"Visualize"}, page : {0},
                 OutputWidth : {4 * k : k \in 1..MaxWidth},
                 MinPadding : {0, MinPadding}]
    /\ zip \in [pages : {<<name>> : name \in DOMAIN RenderLib},
                lastOpened : {0}]
    /\ hpc = "init"
    /\ loopP = 0
    /\ pend = 0
    /\ result = <<>>
    /\ sem = 0
    /\ workers = <<>>
    /\ launched = <<>>
    /\ opErr = "none"
    /\ opOut = "none"
    /\ bbox = [isNil |-> TRUE]
    /\ RenderIdle

CanvasSpec == CanvasInit /\ [][RenderNext]_vars

\* decodes and renders: a behaviour is one decode of a buffer or the renders
\* of one page
FrameInit == ParseInit \/ RenderInit

FrameNext == ParseNext \/ RenderNext

FrameSpec == FrameInit /\ [][FrameNext]_vars

-----------------------------------------------------------------------------
(* The rmhwr command: flags, configuration, loading of the document.       *)

\* strconv on the numbers a command line of the model holds
ParseInt(str) ==
    CASE str = "0" -> 0 [] str = "1" -> 1 [] str = "2" -> 2
      [] str = "3" -> 3 [] str = "5" -> 5

\* path.Ext and strings.TrimSuffix(filename, ext) on the file names of the
\* model
Ext(filename) ==
    CASE filename = "doc.rmdoc" -> ".rmdoc" [] filename = "doc.txt" -> ".txt"

TrimExt(filename) ==
    CASE filename = "doc.rmdoc" -> "doc" [] filename = "doc.txt" -> "doc"

\* the command lines: for every flag the text given for it, "" when the flag
\* is absent; `file` is the first positional argument
CommandLines ==
    [type : {"", "Math"}, lang : {"", "fr_FR"}, page : {"", "0", "2"},
     a : {"", "true"}, b : {"", "5"}, visualize : {"", "true"},
     file : {"", "doc.rmdoc", "doc.txt"}]

\* new-format documents: a manifest of up to MaxPages pages p1, p2, ..., each
\* with a page file that can be read and parsed (ok) or not, and the
\* identifier the manifest names as last opened ("" when none)
PageIds == [i \in 1..MaxPages |-> <<"p", i>>]

Documents ==
    UNION {[pages : {q \in [1..n -> [id : {PageIds[i] : i \in 1..n},
                                     ok : BOOLEAN]] :
                        \A i \in 1..n : q[i].id = PageIds[i]},
            lastOpened : {<<"p", 0>>} \cup {PageIds[i] : i \in 1..n}] :
           n \in 0..MaxPages}

NoDocument == [pages |-> <<>>, lastOpened |-> <<"p", 0>>]

\* loadRmZipNewFormat: LastOpenedPage is the manifest index of the last
\* opened identifier (0 when it is not found); the pages whose file is
\* missing or does not parse are skipped; an archive without pages is an
\* error
loadRmZipNewFormat(doc) ==
    LET hits == {i \in DOMAIN doc.pages : doc.pages[i].id = doc.lastOpened}
        lastOpenedPage ==
            IF hits = {} THEN 0
            ELSE (CHOOSE i \in hits : \A j \in hits : i <= j) - 1
        IsOk(pg) == pg.ok
        read == SelectSeq(doc.pages, IsOk)
    IN  IF Len(read) = 0
        THEN [err |-> "no pages found in archive",
              zip |-> [pages |-> <<>>, lastOpened |-> 0]]
        ELSE [err |-> "nil",
              zip |-> [pages |-> [i \in DOMAIN read |-> read[i].id],
                       lastOpened |-> lastOpenedPage]]

\* the flag definitions of main with their default values
DefaultFlags ==
    [type |-> "Text", lang |-> "en_US", page |-> -1, a |-> FALSE,
     visualize |-> FALSE, b |-> 3]

\* flag.Parse: every flag given on the command line is stored in its cell
flagParse(cells, args) ==
    [type |-> IF args.type = "" THEN cells.type ELSE args.type,
     lang |-> IF args.lang = "" THEN cells.lang ELSE args.lang,
     page |-> IF args.page = "" THEN cells.page ELSE ParseInt(args.page),
     a |-> IF args.a = "" THEN cells.a ELSE TRUE,
     visualize |-> IF args.visualize = "" THEN cells.visualize ELSE TRUE,
     b |-> IF args.b = "" THEN cells.b ELSE ParseInt(args.b)]

MainInit ==
    /\ ParseIdle
    /\ PageIdle
    /\ argv \in CommandLines
    /\ rmdoc \in (IF argv.file = "doc.rmdoc" THEN Documents ELSE {NoDocument})
    /\ mpc = "start"
    /\ flagCells = NoFlags
    /\ cfg = ZeroConfig
    /\ handed = [call |-> "none"]

\* main lines 1087-1102: the flags are defined and cfg is built from the
\* values their pointers hold at that moment
MainFlags ==
    /\ mpc = "start"
    /\ flagCells' = DefaultFlags
    /\ cfg' = [Page |-> DefaultFlags.page, Lang |-> DefaultFlags.lang,
               InputType |-> DefaultFlags.type, AddPages |-> DefaultFlags.a,
               BatchSize |-> DefaultFlags.b, OutputFile |-> ""]
    /\ mpc' = "parse"
    /\ UNCHANGED <<argv, rmdoc, handed>>
    /\ UNCHANGED <<parseVars, pageVars>>

\* main lines 1103-1112: flag.Parse, the file argument, cfg.OutputFile
MainParse ==
    /\ mpc = "parse"
    /\ flagCells' = flagParse(flagCells, argv)
    /\ IF argv.file = ""
       THEN mpc' = "fatal" /\ UNCHANGED cfg
       ELSE /\ mpc' = "load"
            /\ cfg' = [cfg EXCEPT !.OutputFile = TrimExt(argv.file)]
    /\ UNCHANGED <<argv, rmdoc, handed>>
    /\ UNCHANGED <<parseVars, pageVars>>

\* main lines 1114-1131: the document is loaded by its extension; the
\* document is of the new format
MainLoad ==
    /\ mpc = "load"
    /\ IF Ext(argv.file) # ".rmdoc"
       THEN mpc' = "fatal" /\ UNCHANGED zip
       ELSE LET r == loadRmZipNewFormat(rmdoc)
            IN  IF r.err # "nil"
                THEN mpc' = "fatal" /\ UNCHANGED zip
                ELSE mpc' = "loaded" /\ zip' = r.zip
    /\ UNCHANGED <<argv, rmdoc, flagCells, cfg, handed>>
    /\ UNCHANGED <<req, hpc, loopP, pend, result, sem, workers, launched,
                   opErr, opOut, bbox, renderVars>>
    /\ UNCHANGED parseVars

\* main lines 1134-1154: with -visualize the pages are rendered and main
\* returns
MainVisualize ==
    /\ mpc = "loaded"
    /\ flagCells.visualize
    /\ handed' = [call |-> "VisualizePage",
                  pages |-> IF flagCells.page >= 0
                            THEN <<flagCells.page - 1>>
                            ELSE [i \in 1..Len(zip.pages) |-> i - 1]]
    /\ mpc' = "done"
    /\ UNCHANGED <<argv, rmdoc, flagCells, cfg>>
    /\ UNCHANGED <<parseVars, pageVars>>

\* main line 1157: hwr.Hwr(z, cfg)
MainHwr ==
    /\ mpc = "loaded"
    /\ ~flagCells.visualize
    /\ handed' = [call |-> "Hwr", cfg |-> cfg]
    /\ mpc' = "done"
    /\ UNCHANGED <<argv, rmdoc, flagCells, cfg>>
    /\ UNCHANGED <<parseVars, pageVars>>

MainNext == MainFlags \/ MainParse \/ MainLoad \/ MainVisualize \/ MainHwr

MainSpec == MainInit /\ [][MainNext]_vars

-----------------------------------------------------------------------------
(* The copy of parseRmVersion6 in rmhwr, as a function of the buffer.  Its *)
(* header checks, layer window and plausibility checks have the text of    *)
(* the copy in tojson; the point loop fills a zero-valued point field by   *)
(* field, and the slice of points is resized in a statement of its own.    *)

\* rm.Point{}
ZeroPoint ==
    [x |-> <<0, 0, 0, 0>>, y |-> <<0, 0, 0, 0>>, speed |-> <<0, 0, 0, 0>>,
     direction |-> <<0, 0, 0, 0>>, width |-> <<0, 0, 0, 0>>,
     pressure |-> <<0, 0, 0, 0>>]

\* point.X = x ... point.Pressure = pressure
FillPoint(point, d, p) ==
    [point EXCEPT !.x = Word(d, p), !.y = Word(d, p + 4),
                  !.speed = Word(d, p + 8), !.direction = Word(d, p + 12),
                  !.width = Word(d, p + 16), !.pressure = Word(d, p + 20)]

\* the two `continue` tests of the point loop
PointSkippedRmhwr(d, p) ==
    \/ \E k \in 0..5 : IsNaN(Word(d, p + 4 * k)) \/ IsInf(Word(d, p + 4 * k))
    \/ F32LtNeg(Word(d, p), Bits1000) \/ F32GtPos(Word(d, p), Bits20000)
    \/ F32LtNeg(Word(d, p + 4), Bits1000)
    \/ F32GtPos(Word(d, p + 4), Bits20000)

\* the point loop over line.Points = make([]rm.Point, numPoints)
RECURSIVE ReadPointsRmhwr(_, _, _, _, _, _, _)
ReadPointsRmhwr(d, lp, i, n, pe, points, pointsRead) ==
    IF i >= n \/ lp + 24 > pe
    THEN [points |-> points, pointsRead |-> pointsRead, lp |-> lp]
    ELSE IF PointSkippedRmhwr(d, lp)
         THEN ReadPointsRmhwr(d, lp + 24, i + 1, n, pe, points, pointsRead)
         ELSE ReadPointsRmhwr(d, lp + 24, i + 1, n, pe,
                  [points EXCEPT ![pointsRead + 1] = FillPoint(ZeroPoint, d, lp)],
                  pointsRead + 1)

\* a resize that is never done
ResizeRmhwrNever(points, pointsRead) == points

\* if pointsRead > 0 { line.Points = line.Points[:pointsRead] }
ResizeRmhwr(points, pointsRead) ==
    IF pointsRead > 0 THEN SubSeq(points, 1, pointsRead) ELSE points

\* one iteration of the inner loop of the copy
CandidateRmhwr(d, p, pe) ==
    IF p + 4 > pe THEN [kind |-> "break", lp |-> p]
    ELSE IF U32Gt(Word(d, p), 50) THEN [kind |-> "reject", lp |-> p + 1]
    ELSE IF p + 8 > pe THEN [kind |-> "break", lp |-> p + 4]
    ELSE IF p + 12 > pe THEN [kind |-> "break", lp |-> p + 8]
    ELSE IF p + 16 > pe THEN [kind |-> "break", lp |-> p + 12]
    ELSE IF F32LtZero(Word(d, p + 12)) \/ F32GtPos(Word(d, p + 12), Bits100)
         THEN [kind |-> "reject", lp |-> p + 1]
    ELSE IF p + 20 > pe THEN [kind |-> "break", lp |-> p + 16]
    ELSE IF p + 24 > pe THEN [kind |-> "break", lp |-> p + 20]
    ELSE IF Word(d, p + 20) = <<0, 0, 0, 0>> \/ U32Gt(Word(d, p + 20), 50000)
         THEN [kind |-> "reject", lp |-> p + 1]
    ELSE LET numPoints == U32Val(Word(d, p + 20))
         IN  IF p + 24 + numPoints * 24 > pe
             THEN [kind |-> "reject", lp |-> p + 1]
             ELSE LET r == ReadPointsRmhwr(d, p + 24, 0, numPoints, pe,
                                           [i \in 1..numPoints |-> ZeroPoint], 0)
                  IN  IF r.pointsRead > 0
                      THEN [kind |-> "accept", lp |-> r.lp,
                            line |-> [brushType  |-> Word(d, p),
                                      brushColor |-> Word(d, p + 4),
                                      padding    |-> Word(d, p + 8),
                                      brushSize  |-> Word(d, p + 12),
                                      unknown    |-> Word(d, p + 16),
                                      points     |-> ResizeRmhwr(r.points, r.pointsRead)]]
                      ELSE [kind |-> "reject", lp |-> p + 1]

\* the inner loop: for linePos < parseEnd-50
RECURSIVE ScanRmhwr(_, _, _, _)
ScanRmhwr(d, lp, pe, acc) ==
    IF ~(lp < pe - 50) THEN [lines |-> acc, lp |-> lp]
    ELSE LET c == CandidateRmhwr(d, lp, pe)
         IN  IF c.kind = "break" THEN [lines |-> acc, lp |-> c.lp]
             ELSE IF c.kind = "accept"
                  THEN ScanRmhwr(d, c.lp, pe, Append(acc, c.line))
                  ELSE ScanRmhwr(d, c.lp, pe, acc)

\* the loop over the layers
RECURSIVE LayersRmhwr(_, _, _, _, _)
LayersRmhwr(d, p, idx, n, out) ==
    IF idx >= n THEN out
    ELSE LET namePos == FindLayerName(d, p)
             pe == IF namePos > 0 /\ idx < n - 1 THEN namePos ELSE Len(d)
             r  == ScanRmhwr(d, p, pe, <<>>)
             np == IF namePos > 0 THEN NameEnd(d, namePos + 7, namePos)
                   ELSE r.lp
         IN  LayersRmhwr(d, np, idx + 1, n, [out EXCEPT ![idx + 1] = r.lines])

\* the copy as a whole: the error ("" for nil) and the layers
parseRmVersion6Rmhwr(d) ==
    IF HeaderErr(d) # "" THEN [err |-> HeaderErr(d), layers |-> <<>>]
    ELSE LET n == U32Val(Word(d, LayerCountPos))
         IN  [err |-> "",
              layers |-> LayersRmhwr(d, HeaderEnd, 0, n, [i \in 1..n |-> <<>>])]

-----------------------------------------------------------------------------
(* Properties of parseRmVersion6.                                          *)

\* every line the decoder holds: of the finished layers and of the current
AllLines ==
    {lines[i] : i \in DOMAIN lines}
    \cup UNION {{layers[l][i] : i \in DOMAIN layers[l]} : l \in DOMAIN layers}

\* a bound on the number of steps left, for the termination argument
StepsLeft ==
    LET K == Len(data) + 3
    IN  CASE pc = "start" -> (MaxLayers + 3) * K
          [] pc = "layer" -> (numLayers - layerIdx) * K + 1
          [] pc = "scan"  -> (numLayers - layerIdx - 1) * K + 2
                             + (Len(data) - linePos)
          [] OTHER        -> 0

\* C1: the decoder terminates on every buffer; a rejected candidate leaves
\* the scan cursor at exactly candidate_start + 1, and the start of a
\* candidate is never before the start of the previous one.
C1_Progress ==
    /\ [][/\ StepsLeft' < StepsLeft
          /\ StepsLeft' >= 0
          /\ (pc = "scan" /\ pc' = "scan") =>
                /\ savedPos' = linePos
                /\ (outcome' \in Rejects => linePos' = savedPos' + 1)
                /\ savedPos' > savedPos
                /\ linePos' > linePos]_vars
    /\ <>(pc \in {"done", "fail"})

C1_Witness ==
    /\ pc = "done"
    /\ outcome \in Rejects
    /\ linePos = savedPos + 1
    /\ prevSaved >= HeaderEnd
    /\ savedPos > prevSaved
    /\ \E l \in DOMAIN layers : layers[l] # <<>>

\* C2: failure is returned exactly for a buffer shorter than the 43-byte
\* preamble, without "version=6" in the preamble, or shorter than the
\* 80-byte fixed header; every other buffer yields a document, and no index
\* the decoder uses leaves the buffer or the layer list.
Unparseable(d) ==
    \/ Len(d) < 43
    \/ \A i \in 1..35 : \E k \in 1..9 : d[i + k - 1] # VersionMarker[k]
    \/ Len(d) < 80

FiniteBits(w) == ~(w[4] % 128 = 127 /\ w[3] >= 128)

InPageRange(w) ==
    IF w[4] < 128
    THEN U32Val(w) <= Bits20000
    ELSE U32Val(<<w[1], w[2], w[3], w[4] - 128>>) <= Bits1000

GoodPoint(pt) ==
    /\ \A f \in {"x", "y", "speed", "direction", "width", "pressure"} :
          FiniteBits(pt[f])
    /\ InPageRange(pt.x)
    /\ InPageRange(pt.y)

DeclaredPoints(d, at) ==
    [k \in 1..U32Val(Word(d, at + 20)) |->
        PointAt(d, at + 24 + (k - 1) * PointBytes)]

C3_PointsValid ==
    \A ln \in AllLines :
        /\ \A i \in DOMAIN ln.points : GoodPoint(ln.points[i])
        /\ ln.points = SelectSeq(DeclaredPoints(data, ln.at), GoodPoint)

C3_Witness ==
    /\ pc = "done"
    /\ \E ln \in AllLines :
          /\ Len(ln.points) = 1
          /\ Len(DeclaredPoints(data, ln.at)) = 3
          /\ ~GoodPoint(DeclaredPoints(data, ln.at)[1])
          /\ ~GoodPoint(DeclaredPoints(data, ln.at)[3])

\* C4: no stroke of the document is empty; a candidate whose points are all
\* dropped emits nothing and the scan resumes at candidate_start + 1.
C4_NoEmptyStroke ==
    /\ \A ln \in AllLines : Len(ln.points) >= 1
    /\ outcome = "reject_empty" =>
          /\ linePos = savedPos + 1
          /\ \A ln \in AllLines : ln.at # savedPos

C4_Witness ==
    /\ outcome = "reject_empty"
    /\ \A k \in 1..Len(DeclaredPoints(data, savedPos)) :
          ~GoodPoint(DeclaredPoints(data, savedPos)[k])

\* C5: every emitted stroke has brush-type <= 50, a brush-size that is a
\* value within [0, 100], a point-count within (0, 50000], and its declared
\* points inside the layer window.
SizeInRange(w) ==
    /\ FiniteBits(w)
    /\ \/ U32Val(<<w[1], w[2], w[3], w[4] % 128>>) = 0
       \/ w[4] < 128 /\ U32Val(w) <= Bits100

C5_PlausibleHeaders ==
    \A ln \in AllLines :
        LET np == Word(data, ln.at + 20)
        IN  /\ ln.brushType[4] = 0 /\ U32Val(ln.brushType) <= 50
            /\ SizeInRange(ln.brushSize)
            /\ np[4] = 0 /\ U32Val(np) > 0 /\ U32Val(np) <= 50000
            /\ ln.at + 24 + U32Val(np) * 24 <= Len(data)

\* C6: a valid header with one layer, two valid stroke records and any
\* bytes spliced between them decodes to exactly the two records.
RecordLine(d, at) ==
    [at |-> at, brushType |-> Word(d, at), brushColor |-> Word(d, at + 4),
     padding |-> Word(d, at + 8), brushSize |-> Word(d, at + 12),
     unknown |-> Word(d, at + 16), points |-> DeclaredPoints(d, at)]

C6_ResyncRecovery ==
    (/\ pc = "done"
     /\ shape.kind = "body"
     /\ shape.n = 1
     /\ shape.r1 \in DOMAIN ValidRecords
     /\ shape.r2 \in DOMAIN ValidRecords
     /\ shape.tail = "none")
    => LET at2 == HeaderEnd + Len(FirstRecords[shape.r1])
                  + Len(SpliceBytes(shape.sp))
       IN  layers[1] = <<RecordLine(data, HeaderEnd), RecordLine(data, at2)>>

\* C7: when the layer-name marker occurs in the remaining bytes and the
\* layer is not the last one, the stroke window ends just before the
\* marker; otherwise it extends to the end of the buffer.
MarkerAt(d, i) == i + 6 <= Len(d) /\ \A k \in 1..6 : d[i + k] = LayerMarker[k]

C7_WindowEndsAtMarker ==
    pc = "scan" =>
        LET found == {i \in pos..Len(data) : MarkerAt(data, i)}
        IN  IF found # {} /\ layerIdx < numLayers - 1
            THEN \E i \in found : /\ \A j \in found : i <= j
                                  /\ parseEnd = i
            ELSE parseEnd = Len(data)

-----------------------------------------------------------------------------
(* Properties of the operations on an archive.                             *)

\* the indices a request stands for: all pages in ascending order, the
\* stored last-opened index, or the one index k - 1
SelectedIndices(z, k) ==
    IF k < 0 THEN [i \in 1..Len(z.pages) |-> i - 1]
    ELSE IF k = 0 THEN <<z.lastOpened>>
    ELSE <<k - 1>>

Upcoming(from, to) == [i \in 1..(to - from + 1) |-> from + i - 1]

\* C8: in Hwr and in processHWR, once the range is set, the indices already
\* taken by the loop followed by the indices still to come are exactly the
\* selected ones: all of 0..n-1 in ascending order for a negative page, the
\* stored last-opened index for page 0, the single index k-1 for an explicit
\* page k in 1..n; when the loop is over, exactly these were taken.
C8_PageSelection ==
    (/\ req.op \in RunOps
     /\ hpc # "init"
     /\ req.page <= Len(zip.pages))
    => /\ launched \o Upcoming(loopP, pend)
          = SelectedIndices(zip, req.page)
       /\ hpc \in {"wait", "done"}
          => launched = SelectedIndices(zip, req.page)

C8_Witness ==
    /\ req.op = "Hwr"
    /\ hpc = "done"
    /\ req.page < 0
    /\ Len(zip.pages) >= 3
    /\ launched = [i \in 1..Len(zip.pages) |-> i - 1]
    /\ \A i \in DOMAIN opOut : opOut[i] = <<"body", i - 1>>

\* C9: every operation that takes a page answers an explicit page number
\* above pageCount (an index k - 1 >= pageCount) with an out-of-range error
\* and without an output.
C9_OutOfRangeRejected ==
    (/\ req.op \in PageOps
     /\ hpc = "done"
     /\ req.page >= 0
     /\ req.page >= Len(zip.pages))
    => /\ opErr = "outside range"
       /\ opOut = "none"

\* no stroke of the page takes part in drawing
NoQualifyingStroke(name) ==
    /\ name # "nil"
    /\ \A l \in DOMAIN PageLib[name] : \A i \in DOMAIN PageLib[name][l] :
          LET ln == PageLib[name][l][i]
          IN  ln.brushType = "EraseArea" \/ Len(ln.points) < 2

-----------------------------------------------------------------------------
(* Properties of the renderer.                                             *)

\* a render of a page that has data is under way or over
Rendering ==
    /\ req.op = "Visualize"
    /\ hpc # "init"
    /\ PageInRange(zip, req.page)
    /\ zip.pages[req.page + 1] # "nil"

\* the points of the strokes that are not erase-area and have at least two
\* points
QualifyingPoints(page) ==
    UNION {UNION {{ln.points[i] : i \in DOMAIN ln.points} :
                    ln \in {page[l][k] : k \in {j \in DOMAIN page[l] :
                              /\ page[l][j].brushType # "EraseArea"
                              /\ Len(page[l][j].points) >= 2}}} :
           l \in DOMAIN page}

Larger(a, b) == IF a >= b THEN a ELSE b

\* C11: the bounding box of a render is nil exactly when no stroke
\* qualifies; otherwise minX/maxX/minY/maxY are the exact minimum and
\* maximum of x and y over the points of the qualifying strokes (the points
\* of erase-area strokes and of strokes with fewer than 2 points have no
\* influence), and each padding is the larger of 5% of the content extent
\* and MinPadding.
C11_BoundingBox ==
    Rendering =>
        LET pts == QualifyingPoints(PageData(zip, req.page))
        IN  IF pts = {} THEN bbox.isNil
            ELSE /\ ~bbox.isNil
                 /\ \A q \in pts : /\ bbox.minX <= q.x /\ q.x <= bbox.maxX
                                   /\ bbox.minY <= q.y /\ q.y <= bbox.maxY
                 /\ \E q \in pts : q.x = bbox.minX
                 /\ \E q \in pts : q.x = bbox.maxX
                 /\ \E q \in pts : q.y = bbox.minY
                 /\ \E q \in pts : q.y = bbox.maxY
                 /\ bbox.paddingXScaled
                    = Larger((bbox.maxX - bbox.minX) * 5, 50 * 100)
                 /\ bbox.paddingYScaled
                    = Larger((bbox.maxY - bbox.minY) * 5, 50 * 100)

C11_Witness ==
    /\ Rendering
    /\ zip.pages[req.page + 1] = "r_excl"
    /\ ~bbox.isNil
    /\ bbox.minX = 100 /\ bbox.maxX = 300
    /\ bbox.minY = 100 /\ bbox.maxY = 200
    /\ bbox.paddingXScaled = 5000

HighlightColor(colorID) ==
    LET lightColor == lightenColor(ColorPalette[colorID])
    IN  <<lightColor[1], lightColor[2], lightColor[3], highlighterAlpha>>

\* blendColors applied n times to a pixel
RECURSIVE BlendTimes(_, _, _)
BlendTimes(bg, fg, n) ==
    IF n = 0 THEN bg ELSE BlendTimes(blendColors(bg, fg), fg, n - 1)

\* C13: after the two identical highlighter strokes of page r_twohl are drawn
\* over the white canvas, every pixel both strokes cover holds white with
\* blendColors applied exactly twice.
C13_TwoPassCompositing ==
    (Rendering /\ hpc = "done" /\ zip.pages[req.page + 1] = "r_twohl") =>
        \A q \in drawn[1].touched \cap drawn[2].touched :
            canvas.pix[q] = BlendTimes(White, HighlightColor(3), 2)

\* the strokes of a page that are not erase-area and have at least 2 points,
\* as <<layer, line>>
QualifyingStrokes(page) ==
    {e \in UNION {{<<l, k>> : k \in DOMAIN page[l]} : l \in DOMAIN page} :
        /\ page[e[1]][e[2]].brushType # "EraseArea"
        /\ Len(page[e[1]][e[2]].points) >= 2}

\* C14: in the sequence of strokes drawn so far every highlighter stroke comes
\* before every other stroke; a stroke is drawn in the highlighter pass exactly
\* when its pen is a highlighter; inside a pass the strokes come by layer and
\* then by position in the layer; only qualifying strokes are drawn, none
\* twice, and when the render is done every qualifying stroke has been drawn.
C14_TwoPassOrder ==
    Rendering /\ hpc \in {"highlighters", "others", "done"} =>
        LET page == PageData(zip, req.page)
        IN  /\ \A i \in DOMAIN drawn :
                /\ <<drawn[i].layer, drawn[i].line>> \in QualifyingStrokes(page)
                /\ drawn[i].highlighters =
                     IsHighlighter(page[drawn[i].layer][drawn[i].line].brushType)
                /\ hpc = "highlighters" => drawn[i].highlighters
            /\ \A i, j \in DOMAIN drawn : i < j =>
                /\ drawn[i].highlighters \/ ~drawn[j].highlighters
                /\ drawn[i].highlighters = drawn[j].highlighters =>
                     \/ drawn[i].layer < drawn[j].layer
                     \/ /\ drawn[i].layer = drawn[j].layer
                        /\ drawn[i].line < drawn[j].line
            /\ hpc = "done" =>
                \A e \in QualifyingStrokes(page) :
                    Cardinality({i \in DOMAIN drawn :
                        <<drawn[i].layer, drawn[i].line>> = e}) = 1

C14_Witness ==
    /\ Rendering /\ hpc = "done"
    /\ zip.pages[req.page + 1] = "r_order"
    /\ [i \in DOMAIN drawn |-> <<drawn[i].layer, drawn[i].line>>]
         = << <<1, 2>>, <<2, 3>>, <<1, 1>>, <<2, 1>>, <<2, 4>> >>
    /\ drawn[2].highlighters /\ ~drawn[3].highlighters
    /\ drawn[2].touched \cap drawn[4].touched # {}

\* the positions of an image
PositionsOf(img) == (0..(img.w - 1)) \X (0..(img.h - 1))

\* a drawing context after some primitive: the positions accessed lie in the
\* image and are exactly the part of the selected shape that lies in it
Clipped(g) ==
    /\ g.touched \subseteq PositionsOf(g.img)
    /\ g.touched = g.shape \cap PositionsOf(g.img)

\* centres, radii and corners on, at and beyond the edges of a w x h image
EdgeCoords(n) == {-25, -1, 0, n - 1, n, n + 25}
EdgeRadii == {0, 1, 3, 12}
EdgeCorners(w, h) ==
    {<<-5, -5>>, <<2, 1>>, <<w + 5, 2>>, <<2, h + 5>>, <<w + 5, h + 5>>,
     <<w + 9, -5>>}

\* C15: every stroke drawn accessed only positions inside the canvas and
\* accessed every position of its shape that lies inside; and on the finished
\* canvas each primitive, called with centres, radii and corners that put the
\* shape inside, across an edge or wholly outside, accesses exactly the part
\* of its shape that lies inside the canvas (checked on the canvases of
\* width 4).
C15_Clipping ==
    Rendering /\ hpc \in {"highlighters", "others", "done"} =>
        /\ DOMAIN canvas.pix = PositionsOf(canvas)
        /\ \A i \in DOMAIN drawn :
            /\ drawn[i].touched \subseteq PositionsOf(canvas)
            /\ drawn[i].touched = drawn[i].shape \cap PositionsOf(canvas)
        /\ (hpc = "done" /\ run = 2 /\ req.OutputWidth = 4) =>
            LET g == Context(canvas)
                w == canvas.w
                h == canvas.h
                c == <<10, 20, 30, 114>>
            IN  /\ \A cx \in EdgeCoords(w), cy \in EdgeCoords(h),
                      radius \in EdgeRadii :
                       /\ Clipped(drawFilledCircle(g, cx, cy, radius, c, w, h))
                       /\ Clipped(drawFilledCircleBlended(g, cx, cy, radius,
                                                          c, w, h))
                /\ \A p1, p2, p3 \in EdgeCorners(w, h) :
                       Clipped(drawFilledPolygonBlended(g,
                                   <<p1[1], p2[1], p3[1]>>,
                                   <<p1[2], p2[2], p3[2]>>, c, w, h))
                /\ \A p1, p2 \in EdgeCorners(w, h) :
                       Clipped(drawVariableWidthLineWithColor(g, p1[1], p1[2],
                                   1, p2[1], p2[2], 3, <<0, 0, 0>>,
                                   <<0, 0, 0>>, 1000, 1000, w, h))

\* a stroke whose shape crosses the edge of the canvas was drawn, and on the
\* finished canvas a circle wholly outside it selects positions and accesses
\* none
C15_Witness ==
    /\ Rendering /\ hpc = "done" /\ run = 2 /\ req.OutputWidth = 4
    /\ \E i \in DOMAIN drawn :
        /\ drawn[i].touched # {}
        /\ drawn[i].shape \ PositionsOf(canvas) # {}
    /\ LET g == drawFilledCircle(Context(canvas), canvas.w + 25, -25, 3,
                                 <<10, 20, 30, 114>>, canvas.w, canvas.h)
       IN  g.shape # {} /\ g.touched = {} /\ ImageOf(g) = canvas

\* C16: whenever a page worker of Hwr is about to store its response
\* (result[p] = body), p is an index of the results slice.
C16_SlotInsideResults ==
    (req.op = "Hwr" /\ hpc \in {"loop", "wait"}) =>
        \A p \in DOMAIN workers :
            workers[p] = "write" => (0 <= p /\ p < Len(result))

\* the page conversions in flight: the workers started that have not yet
\* released their permit
InFlight ==
    {p \in DOMAIN workers : workers[p] \in {"json", "send", "write", "release"}}

\* C17: during Hwr at most BatchSize page conversions are in flight, and
\* while the process runs they are as many as the permits held.
C17_BoundedInFlight ==
    req.op = "Hwr" =>
        /\ Cardinality(InFlight) <= BatchSize
        /\ hpc \in {"loop", "wait"} => Cardinality(InFlight) = sem

\* the limit binds: BatchSize conversions are in flight and the loop has a
\* further page to start
C17_Witness ==
    /\ req.op = "Hwr" /\ hpc = "loop"
    /\ Cardinality(InFlight) = BatchSize
    /\ loopP <= pend
    /\ ~ENABLED HwrSpawn

\* the width the pen table gives a stroke of brush size b (thousandths), in
\* millionths: b x 1.8 for the fineliner, b x b for the mechanical pencil,
\* b x 2 for the eraser
TableWidth(brushType, b) ==
    CASE brushType \in {"Fineliner", "FinelinerV5"} -> b * 1800
      [] brushType \in {"SharpPencil", "SharpPencilV5"} -> b * b
      [] brushType = "Eraser" -> b * 2000

\* C18: for every fineliner, mechanical pencil and eraser stroke drawn, the
\* width GetStrokeWidth returned for each of its samples is the width of the
\* pen table, whatever the pressure of the sample.
C18_ConstantWidth ==
    Rendering /\ hpc \in {"highlighters", "others", "done"} =>
        \A i \in DOMAIN drawn :
            LET ln == PageData(zip, req.page)[drawn[i].layer][drawn[i].line]
            IN  ln.brushType \in {"Fineliner", "FinelinerV5", "SharpPencil",
                                  "SharpPencilV5", "Eraser"} =>
                    \A k \in DOMAIN drawn[i].widths :
                        drawn[i].widths[k] = TableWidth(ln.brushType,
                                                        ln.brushSize)

\* the page indices the documentation of /api/convert promises for a page
\* parameter: the last opened page for 0, all pages when omitted or negative,
\* index k - 1 for k >= 1
DocumentedPages(z, page) ==
    IF page = 0 THEN <<z.lastOpened>>
    ELSE IF page < 0 THEN [i \in 1..Len(z.pages) |-> i - 1]
    ELSE <<page - 1>>

\* C19: the PNG files /api/convert returns are those of the documented pages
\* that can be converted.
C19_ConvertPageParameter ==
    (req.op = "handleConvert" /\ hpc = "done") =>
        LET Keep(p) == Converted(zip, p)
        IN  opOut = SelectSeq(DocumentedPages(zip, req.page), Keep)

\* C20: the batch tojson's generateJSON returned for a page is the batch
\* hwr.getJson builds for the same archive and page: the same error, and on
\* success the same width, height, DPI and strokes.
C20_TojsonMatchesGetJson ==
    (req.op = "generateJSON" /\ hpc = "done") =>
        LET r == getJson(zip, req.page)
        IN  /\ opErr = r.err
            /\ opErr = "nil" =>
                /\ opOut.Width = r.out.Width
                /\ opOut.Height = r.out.Height
                /\ opOut.XDPI = r.out.XDPI
                /\ opOut.YDPI = r.out.YDPI
                /\ opOut.Strokes = r.out.Strokes

-----------------------------------------------------------------------------
(* Properties of the recognition payload.                                  *)

\* the strokes of a page that are not erase-area and have points, as
\* <<layer, line>>
PayloadStrokes(page) ==
    {e \in UNION {{<<l, k>> : k \in DOMAIN page[l]} : l \in DOMAIN page} :
        /\ page[e[1]][e[2]].brushType # "EraseArea"
        /\ Len(page[e[1]][e[2]].points) > 0}

\* the place of stroke e among them, by layer and then by position
PayloadRank(page, e) ==
    Cardinality({d \in PayloadStrokes(page) :
                    d[1] < e[1] \/ (d[1] = e[1] /\ d[2] <= e[2])})

\* C21: the payload getJson or buildBatchInput returned holds one stroke for
\* each stroke of the page that is not erase-area and has points, in layer and
\* then stroke order, and no other; its X and Y are the coordinates of the
\* points, its P lies in [0, 1] (0.5 for a pressure <= 0, a tenth capped at 1
\* for a pressure > 1, else the pressure), its pointer type is ERASER for an
\* eraser stroke and PEN otherwise, and X, Y, P, T have one entry per point.
C21_Payload ==
    (req.op \in {"getJson", "buildBatchInput"} /\ hpc = "done"
        /\ opErr = "nil") =>
        LET page == PageData(zip, req.page)
            kept == PayloadStrokes(page)
        IN  /\ Len(opOut.Strokes) = Cardinality(kept)
            /\ \A e \in kept :
                LET ln == page[e[1]][e[2]]
                    st == opOut.Strokes[PayloadRank(page, e)]
                    n == Len(ln.points)
                IN  /\ Len(st.X) = n /\ Len(st.Y) = n
                    /\ Len(st.P) = n /\ Len(st.T) = n
                    /\ st.PointerType =
                         (IF ln.brushType = "Eraser" THEN "ERASER" ELSE "PEN")
                    /\ \A i \in 1..n :
                        /\ st.X[i] = ln.points[i].x
                        /\ st.Y[i] = ln.points[i].y
                        /\ 0 <= st.P[i] /\ st.P[i] <= 1000
                        /\ ln.points[i].pressure <= 0 => st.P[i] = 500
                        /\ (ln.points[i].pressure > 0
                              /\ ln.points[i].pressure <= 1000) =>
                                st.P[i] = ln.points[i].pressure
                        /\ (ln.points[i].pressure > 1000
                              /\ ln.points[i].pressure <= 10000) =>
                                10 * st.P[i] <= ln.points[i].pressure
                                /\ ln.points[i].pressure < 10 * (st.P[i] + 1)
                        /\ ln.points[i].pressure > 10000 => st.P[i] = 1000

\* a payload of the pages mixed and ink: an eraser stroke with a defaulted
\* pressure, a dropped erase-area stroke, a one-point stroke, and pressures
\* 2.0 and 30 brought to 0.2 and 1
C21_Witness ==
    /\ req.op = "buildBatchInput" /\ hpc = "done" /\ opErr = "nil"
    /\ zip.pages = <<"mixed", "ink">>
    /\ \/ /\ req.page = 0
          /\ Len(opOut.Strokes) = 3
          /\ opOut.Strokes[1].PointerType = "ERASER"
          /\ opOut.Strokes[1].P = <<500, 1000>>
          /\ opOut.Strokes[3].X = <<60>>
       \/ /\ req.page = 1
          /\ opOut.Strokes[1].P = <<500, 200, 1000>>

-----------------------------------------------------------------------------
(* Further properties of the renderer.                                     *)

\* C22: during and after the drawing every pixel of the canvas is opaque
\* (alpha 255), and the pixels of the mechanical-pencil stroke of page r_excl,
\* the only stroke drawn on it, hold the pencil colour composited over white
\* with the pencil opacity.
C22_TranslucentDiscsComposited ==
    Rendering /\ hpc \in {"highlighters", "others", "done"} =>
        /\ \A q \in DOMAIN canvas.pix : canvas.pix[q][4] = 255
        /\ zip.pages[req.page + 1] = "r_excl" =>
            \A i \in DOMAIN drawn : \A q \in drawn[i].touched :
                canvas.pix[q] =
                    blendColors(White,
                        <<ColorPalette[6][1], ColorPalette[6][2],
                          ColorPalette[6][3], AlphaOf(opacityMechanical)>>)

\* C23: every highlighter stroke drawn has round caps centred at the pixel of
\* its first point and at the pixel of its last point, and nowhere else.
C23_CapsAtBothEnds ==
    Rendering /\ hpc \in {"highlighters", "others", "done"} =>
        \A i \in DOMAIN drawn :
            LET ln == PageData(zip, req.page)[drawn[i].layer][drawn[i].line]
                n == Len(ln.points)
                first == transformPoint(ln.points[1].x, ln.points[1].y,
                                        bbox, dims)
                last == transformPoint(ln.points[n].x, ln.points[n].y,
                                       bbox, dims)
            IN  IsHighlighter(ln.brushType) =>
                    drawn[i].caps = {<<first.x, first.y>>, <<last.x, last.y>>}

-----------------------------------------------------------------------------
(* The end of the layer window.                                            *)

\* C24: when the buffer is one layer whose window ends with a valid stroke
\* record (of one or of two points), alone or after another valid record and
\* some bytes 0xFF, the finished decode holds that record.
C24_RecordAtWindowEnd ==
    (/\ pc = "done"
     /\ shape.kind = "body"
     /\ shape.n = 1
     /\ shape.r1 \in {"none"} \cup DOMAIN ValidRecords
     /\ shape.sp \in JunkNames
     /\ shape.r2 \in DOMAIN ValidRecords
     /\ shape.tail = "none")
    => LET at2 == HeaderEnd + Len(FirstRecords[shape.r1])
                  + Len(SpliceBytes(shape.sp))
       IN  /\ at2 + Len(SecondRecords[shape.r2]) = Len(data)
           /\ \E i \in DOMAIN layers[1] :
                  layers[1][i] = RecordLine(data, at2)

-----------------------------------------------------------------------------
(* Properties of the rmhwr command.                                        *)

\* C25: the configuration main hands to hwr.Hwr carries the values given on
\* the command line: Page, InputType, Lang, AddPages and BatchSize are those
\* of -page, -type, -lang, -a and -b when the flag is given, and the default
\* of the flag otherwise.
C25_FlagsReachHwr ==
    handed.call = "Hwr" =>
        /\ handed.cfg.Page =
             (IF argv.page = "" THEN -1 ELSE ParseInt(argv.page))
        /\ handed.cfg.InputType =
             (IF argv.type = "" THEN "Text" ELSE argv.type)
        /\ handed.cfg.Lang = (IF argv.lang = "" THEN "en_US" ELSE argv.lang)
        /\ handed.cfg.AddPages = (argv.a # "")
        /\ handed.cfg.BatchSize =
             (IF argv.b = "" THEN 3 ELSE ParseInt(argv.b))

-----------------------------------------------------------------------------
(* Frame of the decoder and of the renderer.                               *)

-----------------------------------------------------------------------------
(* The barrier of Hwr.                                                     *)

\* C27: while page workers of Hwr may still run nothing has been read from
\* the result slots; when the slots have been read every started worker has
\* stored its response in the slot of its page and released its permit, and
\* the texts read are those of the pages in ascending page index.
C27_ReadAfterAllWorkers ==
    req.op = "Hwr" =>
        /\ hpc \in {"init", "loop", "wait"} => opOut = "none"
        /\ hpc = "done" =>
            /\ \A p \in DOMAIN workers :
                /\ workers[p] = "done"
                /\ result[p + 1] = <<"body", p>>
            /\ InFlight = {}
            /\ Len(opOut) = Len(result)
            /\ \A i \in DOMAIN opOut :
                   opOut[i] = <<"body", i - 1>> /\ (i - 1) \in DOMAIN workers

\* an archive of more pages than permits has been converted and output
C27_Witness ==
    /\ req.op = "Hwr" /\ hpc = "done"
    /\ Len(zip.pages) = BatchSize + 1
    /\ launched = [i \in 1..(BatchSize + 1) |-> i - 1]
    /\ Len(opOut) = BatchSize + 1

-----------------------------------------------------------------------------
(* The two copies of the decoder.                                          *)

\* the fields of a stroke of the decoder in tojson
LineFields(ln) ==
    [brushType |-> ln.brushType, brushColor |-> ln.brushColor,
     padding |-> ln.padding, brushSize |-> ln.brushSize,
     unknown |-> ln.unknown, points |-> ln.points]

\* C28: when the decoder of tojson has returned, the decoder of rmhwr run on
\* the same buffer fails exactly when it failed, and otherwise returns the
\* same number of layers with the same strokes in the same order, with the
\* same header fields and the same points.
C28_CopiesAgree ==
    pc \in {"done", "fail"} =>
        LET r == parseRmVersion6Rmhwr(data)
        IN  IF pc = "fail" THEN r.err # "" /\ r.err = err
            ELSE /\ r.err = ""
                 /\ Len(r.layers) = Len(layers)
                 /\ \A l \in DOMAIN layers :
                        r.layers[l] = [k \in DOMAIN layers[l] |->
                                          LineFields(layers[l][k])]

\* a document decoded with a stroke that lost a point to the checks
C28_Witness ==
    /\ pc = "done"
    /\ shape.kind = "body" /\ shape.r1 = "mixed"
    /\ \E l \in DOMAIN layers : \E k \in DOMAIN layers[l] :
           Len(layers[l][k].points) = 2

-----------------------------------------------------------------------------
(* The archive returned by loadRmZipNewFormat.                             *)

\* C29: in the archive returned by loadRmZipNewFormat, LastOpenedPage is an
\* index into Pages, and when the page the manifest names as last opened
\* was read, Pages[LastOpenedPage] is that page.
C29_LastOpenedValid ==
    mpc = "loaded" =>
        /\ zip.lastOpened \in 0..(Len(zip.pages) - 1)
        /\ (\E i \in DOMAIN zip.pages : zip.pages[i] = rmdoc.lastOpened)
               => zip.pages[zip.lastOpened + 1] = rmdoc.lastOpened

-----------------------------------------------------------------------------
(* The canvas and the transformed points.                                  *)

\* C30: while the strokes of a page are drawn the canvas is OutputWidth
\* pixels wide and at least minImageHeight pixels high, and transformPoint
\* maps every point of every stroke drawn so far to a pixel position with
\* 0 <= x <= canvas width and 0 <= y <= canvas height.
C30_PointsOnCanvas ==
    InPass =>
        /\ canvas.w = req.OutputWidth
        /\ canvas.h >= minImageHeight
        /\ \A i \in DOMAIN drawn :
               LET ln == PageData(zip, req.page)[drawn[i].layer][drawn[i].line]
               IN  \A k \in DOMAIN ln.points :
                       LET q == transformPoint(ln.points[k].x, ln.points[k].y,
                                               bbox, dims)
                       IN  /\ 0 <= q.x /\ q.x <= canvas.w
                           /\ 0 <= q.y /\ q.y <= canvas.h

====
